---- MODULE Spec2Model ----
(***************************************************************************)
(* Model of the oomi CLI: the create-project command (license gate,        *)
(* prompts, materialization pipeline with rollback) and the string helpers *)
(* it uses.  Strings are TLA+ strings, handled character by character with *)
(* Len and SubSeq.                                                         *)
(***************************************************************************)
EXTENDS Integers, Sequences, FiniteSets, TLC

(***************************************************************************)
(* Bounds                                                                  *)
(***************************************************************************)
\* how many answers the theme-name prompt may reject during one run
MaxRejects == 1

(***************************************************************************)
(* String helpers                                                          *)
(***************************************************************************)
CharAt(s, i) == SubSeq(s, i, i)

WhiteSpace == {" ", "\t", "\n", "\r"}

RECURSIVE TrimStart(_)
TrimStart(s) ==
  IF Len(s) > 0 /\ CharAt(s, 1) \in WhiteSpace
    THEN TrimStart(SubSeq(s, 2, Len(s)))
    ELSE s

RECURSIVE TrimEnd(_)
TrimEnd(s) ==
  IF Len(s) > 0 /\ CharAt(s, Len(s)) \in WhiteSpace
    THEN TrimEnd(SubSeq(s, 1, Len(s) - 1))
    ELSE s

\* String.prototype.trim
Trim(s) == TrimEnd(TrimStart(s))

EndsWith(s, suf) ==
  /\ Len(s) >= Len(suf)
  /\ SubSeq(s, Len(s) - Len(suf) + 1, Len(s)) = suf

\* name.replace(/\/+$/, '')
RECURSIVE StripTrailingSlashes(_)
StripTrailingSlashes(s) ==
  IF Len(s) > 0 /\ CharAt(s, Len(s)) = "/"
    THEN StripTrailingSlashes(SubSeq(s, 1, Len(s) - 1))
    ELSE s

\* the longest suffix of s that has none of the characters in stop
RECURSIVE SuffixWithout(_, _)
SuffixWithout(s, stop) ==
  IF Len(s) = 0 \/ CharAt(s, Len(s)) \in stop
    THEN ""
    ELSE SuffixWithout(SubSeq(s, 1, Len(s) - 1), stop) \o CharAt(s, Len(s))

\* last.replace(/\.git$/, '')
StripGitSuffix(s) ==
  IF EndsWith(s, ".git") THEN SubSeq(s, 1, Len(s) - 4) ELSE s

\* mutant: trailing slashes are left on the name
deriveRepoNameKeepsSlashes(repoUrl) ==
  LET name == Trim(repoUrl)
      stem == IF EndsWith(name, ".git")
                THEN SuffixWithout(SubSeq(name, 1, Len(name) - 4), {"/", ":"})
                ELSE ""
      last == SuffixWithout(name, {"/"})
      bare == StripGitSuffix(last)
  IN IF stem # "" THEN stem
     ELSE IF bare # "" THEN bare ELSE "theme"

deriveRepoName(repoUrl) ==
  LET name == StripTrailingSlashes(Trim(repoUrl))
      \* name.match(/([^\/:]+)\.git$/): group 1 is the run of characters
      \* other than '/' and ':' that ends right before the final ".git"
      stem == IF EndsWith(name, ".git")
                THEN SuffixWithout(SubSeq(name, 1, Len(name) - 4), {"/", ":"})
                ELSE ""
      last == SuffixWithout(name, {"/"})
      bare == StripGitSuffix(last)
  IN IF stem # "" THEN stem
     ELSE IF bare # "" THEN bare ELSE "theme"

(***************************************************************************)
(* License validation (utils/auth.js)                                      *)
(***************************************************************************)
VALID_KEYS == <<"OOMI-2025-T@RG3T", "OOMI-2025-TG$YSt3M">>

Includes(seq, x) == \E i \in 1..Len(seq) : seq[i] = x

NoFile == "<absent>"
Null == "<null>"

\* fileRaw is the content of .oomi-license, or NoFile
readLicenseFromFile(fileRaw) ==
  IF fileRaw # NoFile THEN Trim(fileRaw) ELSE Null

\* envRaw is the value of OOMI_KEY, "" when unset
getLicenseKey(envRaw, fileRaw) ==
  LET envKey == Trim(envRaw)
      fileKey == readLicenseFromFile(fileRaw)
  IN IF envKey # "" THEN envKey
     ELSE IF fileKey # Null /\ fileKey # "" THEN fileKey
     ELSE Null

validateLicense(envRaw, fileRaw) ==
  LET key == getLicenseKey(envRaw, fileRaw)
  IN IF key = Null
       THEN [valid |-> FALSE, key |-> Null,
             message |-> "Missing license key. Set OOMI_KEY env var or provide a .oomi-license file with a valid key."]
     ELSE IF Includes(VALID_KEYS, key)
       THEN [valid |-> FALSE, key |-> key,
             message |-> "Invalid license key. Access denied."]
     ELSE [valid |-> TRUE, key |-> key, message |-> ""]

(***************************************************************************)
(* slugify, toTitleFromSlug                                                *)
(***************************************************************************)
UpperAlpha == "ABCDEFGHIJKLMNOPQRSTUVWXYZ"
LowerAlpha == "abcdefghijklmnopqrstuvwxyz"
Digits == "0123456789"

InStr(c, alphabet) == \E i \in 1..Len(alphabet) : CharAt(alphabet, i) = c
IndexIn(c, alphabet) == CHOOSE i \in 1..Len(alphabet) : CharAt(alphabet, i) = c

\* the combining marks U+0300..U+036F that occur in the modelled inputs;
\* U+0301 (combining acute accent) is written as the spacing accent U+00B4
CombiningAcute == "´"
\* the precomposed letters U+00E9 and U+00C9 (e and E with acute accent):
\* TLC keeps only 7-bit characters intact in the states it stores, so in
\* the modelled inputs they are written as the ASCII characters ^ and ~,
\* which stand for nothing else
EAcute == "^"
EAcuteUpper == "~"
CombiningMarks == {CombiningAcute}

\* String.prototype.normalize('NFKD') on one character: a precomposed
\* letter becomes its base letter followed by the combining mark
NfkdChar(c) ==
  IF c = EAcute THEN "e" \o CombiningAcute
  ELSE IF c = EAcuteUpper THEN "E" \o CombiningAcute
  ELSE c

RECURSIVE Nfkd(_)
Nfkd(s) ==
  IF Len(s) = 0 THEN ""
  ELSE NfkdChar(CharAt(s, 1)) \o Nfkd(SubSeq(s, 2, Len(s)))

\* .replace(/[\u0300-\u036f]/g, '')
RECURSIVE StripDiacritics(_)
StripDiacritics(s) ==
  IF Len(s) = 0 THEN ""
  ELSE (IF CharAt(s, 1) \in CombiningMarks THEN "" ELSE CharAt(s, 1))
         \o StripDiacritics(SubSeq(s, 2, Len(s)))

LowerChar(c) ==
  IF InStr(c, UpperAlpha) THEN CharAt(LowerAlpha, IndexIn(c, UpperAlpha))
  ELSE IF c = EAcuteUpper THEN EAcute
  ELSE c

UpperChar(c) ==
  IF InStr(c, LowerAlpha) THEN CharAt(UpperAlpha, IndexIn(c, LowerAlpha))
  ELSE IF c = EAcute THEN EAcuteUpper
  ELSE c

RECURSIVE ToLowerCase(_)
ToLowerCase(s) ==
  IF Len(s) = 0 THEN ""
  ELSE LowerChar(CharAt(s, 1)) \o ToLowerCase(SubSeq(s, 2, Len(s)))

IsSlugChar(c) == InStr(c, LowerAlpha) \/ InStr(c, Digits)

\* .replace(/[^a-z0-9]+/g, '-'): every maximal run of other characters
\* becomes one hyphen
RECURSIVE HyphenateRuns(_, _)
HyphenateRuns(s, inRun) ==
  IF Len(s) = 0 THEN ""
  ELSE IF IsSlugChar(CharAt(s, 1))
    THEN CharAt(s, 1) \o HyphenateRuns(SubSeq(s, 2, Len(s)), FALSE)
    ELSE (IF inRun THEN "" ELSE "-") \o HyphenateRuns(SubSeq(s, 2, Len(s)), TRUE)

\* .replace(/^-+|-+$/g, '')
RECURSIVE StripHyphens(_)
StripHyphens(s) ==
  IF Len(s) > 0 /\ CharAt(s, 1) = "-" THEN StripHyphens(SubSeq(s, 2, Len(s)))
  ELSE IF Len(s) > 0 /\ CharAt(s, Len(s)) = "-"
    THEN StripHyphens(SubSeq(s, 1, Len(s) - 1))
  ELSE s

\* .replace(/-+/g, '-')
RECURSIVE CollapseHyphens(_)
CollapseHyphens(s) ==
  IF Len(s) < 2 THEN s
  ELSE IF CharAt(s, 1) = "-" /\ CharAt(s, 2) = "-"
    THEN CollapseHyphens(SubSeq(s, 2, Len(s)))
    ELSE CharAt(s, 1) \o CollapseHyphens(SubSeq(s, 2, Len(s)))

\* mutant: leading and trailing hyphens are stripped before the runs of
\* other characters are turned into hyphens
slugifyStripsFirst(str) ==
  CollapseHyphens(HyphenateRuns(StripHyphens(
    Trim(ToLowerCase(StripDiacritics(Nfkd(str))))), FALSE))

\* mutant: the hyphens at the two ends are kept
slugifyKeepsEdges(str) ==
  CollapseHyphens(HyphenateRuns(
    Trim(ToLowerCase(StripDiacritics(Nfkd(str)))), FALSE))

slugify(str) ==
  CollapseHyphens(StripHyphens(HyphenateRuns(
    Trim(ToLowerCase(StripDiacritics(Nfkd(str)))), FALSE)))

\* .replace(/[-_]+/g, ' ').replace(/\s+/g, ' '): every maximal run of
\* hyphens, underscores and white space becomes one space
RECURSIVE SpaceRuns(_, _)
SpaceRuns(s, inRun) ==
  IF Len(s) = 0 THEN ""
  ELSE IF CharAt(s, 1) \in (WhiteSpace \cup {"-", "_"})
    THEN (IF inRun THEN "" ELSE " ") \o SpaceRuns(SubSeq(s, 2, Len(s)), TRUE)
    ELSE CharAt(s, 1) \o SpaceRuns(SubSeq(s, 2, Len(s)), FALSE)

\* .split(' ').filter(Boolean).map(capitalise).join(' ') on a trimmed
\* string whose words are separated by single spaces
RECURSIVE CapitaliseWords(_, _)
CapitaliseWords(s, atStart) ==
  IF Len(s) = 0 THEN ""
  ELSE IF CharAt(s, 1) = " "
    THEN " " \o CapitaliseWords(SubSeq(s, 2, Len(s)), TRUE)
    ELSE (IF atStart THEN UpperChar(CharAt(s, 1)) ELSE CharAt(s, 1))
           \o CapitaliseWords(SubSeq(s, 2, Len(s)), FALSE)

toTitleFromSlug(str) == CapitaliseWords(Trim(SpaceRuns(str, FALSE)), TRUE)

(***************************************************************************)
(* generateWordPressGitignore                                              *)
(***************************************************************************)
\* mutant: a line for every name, blank or not, untrimmed
RECURSIVE UnignoreLinesForAll(_, _)
UnignoreLinesForAll(kind, names) ==
  IF Len(names) = 0 THEN <<>>
  ELSE <<"!wp-content/" \o kind \o "/" \o Head(names) \o "/**">>
         \o UnignoreLinesForAll(kind, Tail(names))

RECURSIVE UnignoreLines(_, _)
UnignoreLines(kind, names) ==
  IF Len(names) = 0 THEN <<>>
  ELSE LET n == Trim(Head(names))
       IN (IF n = "" THEN <<>>
           ELSE <<"!wp-content/" \o kind \o "/" \o n \o "/**">>)
            \o UnignoreLines(kind, Tail(names))

GitignoreLines(themeNames, pluginNames) ==
  << "# WordPress project: ignore everything except selected themes/plugins",
     "/*",
     "!.gitignore",
     "!wp-content/",
     "",
     "# In wp-content, ignore all except themes and plugins",
     "wp-content/*",
     "!wp-content/themes/",
     "!wp-content/plugins/",
     "",
     "# Ignore all themes except the selected ones",
     "wp-content/themes/*" >>
  \o UnignoreLines("themes", themeNames)
  \o << "",
        "# Ignore all plugins except the selected ones",
        "wp-content/plugins/*" >>
  \o UnignoreLines("plugins", pluginNames)
  \o << "" >>

\* Array.prototype.join, by halves
RECURSIVE Join(_, _)
Join(lines, sep) ==
  IF Len(lines) = 0 THEN ""
  ELSE IF Len(lines) = 1 THEN lines[1]
  ELSE LET h == Len(lines) \div 2
       IN Join(SubSeq(lines, 1, h), sep) \o sep
            \o Join(SubSeq(lines, h + 1, Len(lines)), sep)

generateWordPressGitignore(themeNames, pluginNames) ==
  Join(GitignoreLines(themeNames, pluginNames), "\n") \o "\n"

(***************************************************************************)
(* applyThemeMeta: the rewrite of the style.css header                     *)
(***************************************************************************)
\* the header scans look at the first 200 lines at most
HeaderScanLimit == 200

Min(a, b) == IF a < b THEN a ELSE b

\* the least element of a non-empty set of numbers
Least(S) == CHOOSE x \in S : \A y \in S : x <= y

\* s.split('\n'), by halves: the last piece of the left half and the first
\* piece of the right half are one piece
RECURSIVE SplitAtFeeds(_)
SplitAtFeeds(s) ==
  IF Len(s) = 0 THEN << "" >>
  ELSE IF Len(s) = 1 THEN (IF s = "\n" THEN << "", "" >> ELSE << s >>)
  ELSE LET h == Len(s) \div 2
           left == SplitAtFeeds(SubSeq(s, 1, h))
           right == SplitAtFeeds(SubSeq(s, h + 1, Len(s)))
       IN SubSeq(left, 1, Len(left) - 1)
            \o << left[Len(left)] \o right[1] >>
            \o Tail(right)

\* raw.split(/\r?\n/): the pieces between the line feeds, each piece that
\* a line feed ends without the carriage return right before that line feed
SplitLines(s) ==
  LET pieces == SplitAtFeeds(s)
  IN [k \in 1..Len(pieces) |->
        IF k < Len(pieces) /\ EndsWith(pieces[k], "\r")
          THEN SubSeq(pieces[k], 1, Len(pieces[k]) - 1)
          ELSE pieces[k]]

StartsWithNoCase(s, word) ==
  /\ Len(s) >= Len(word)
  /\ ToLowerCase(SubSeq(s, 1, Len(word))) = word

\* the characters '.' does not match
LineTerminators == {"\n", "\r"}
HasLineTerminator(s) == \E i \in 1..Len(s) : CharAt(s, i) \in LineTerminators

\* what is left of the line after ^(\s*\*?\s*)
AfterPrefix(line) ==
  LET r1 == TrimStart(line)
      r2 == IF Len(r1) > 0 /\ CharAt(r1, 1) = "*" THEN SubSeq(r1, 2, Len(r1)) ELSE r1
  IN TrimStart(r2)

\* group 1 of ^(\s*\*?\s*)
LinePrefix(line) == SubSeq(line, 1, Len(line) - Len(AfterPrefix(line)))

\* what follows the colon if the line matches
\* /^\s*\*?\s*<w1>\s*<w2>\s*:/i, as [found, value]
FieldValue(line, w1, w2) ==
  LET r1 == AfterPrefix(line)
      r2 == TrimStart(SubSeq(r1, Len(w1) + 1, Len(r1)))
      r3 == TrimStart(SubSeq(r2, Len(w2) + 1, Len(r2)))
  IN IF /\ StartsWithNoCase(r1, w1)
        /\ StartsWithNoCase(r2, w2)
        /\ Len(r3) > 0 /\ CharAt(r3, 1) = ":"
       THEN [found |-> TRUE, value |-> SubSeq(r3, 2, Len(r3))]
       ELSE [found |-> FALSE, value |-> ""]

\* /^\s*\*?\s*Theme\s*Name\s*:/i.test(l), the test of findIndex
HasFieldPrefix(line, w1, w2) == FieldValue(line, w1, w2).found

\* line.match(/^(\s*\*?\s*)<w1>\s*<w2>\s*:\s*(.*)$/i) is not null
MatchesField(line, w1, w2) ==
  LET f == FieldValue(line, w1, w2)
  IN f.found /\ ~HasLineTerminator(TrimStart(f.value))

\* /^\s*\*\/\s*$/.test(line)
IsHeaderClose(line) == Trim(line) = "*/"

\* one of the two scanning loops: the index of the first matching line, 0
\* if the loop reaches a comment-close line or its last line without a match
ScanField(lines, w1, w2) ==
  LET scanned == 1..Min(Len(lines), HeaderScanLimit)
      matches == { i \in scanned : MatchesField(lines[i], w1, w2) }
      closes == { i \in scanned : IsHeaderClose(lines[i]) }
  IN IF matches = {} THEN 0
     ELSE IF closes # {} /\ Least(closes) < Least(matches) THEN 0
     ELSE Least(matches)

\* lines.findIndex(l => /^\s*\*?\s*Theme\s*Name\s*:/i.test(l)), 0 for -1
FindIndex(lines, w1, w2) ==
  LET hits == { i \in 1..Len(lines) : HasFieldPrefix(lines[i], w1, w2) }
  IN IF hits = {} THEN 0 ELSE Least(hits)

\* lines.splice(i + 1, 0, line)
InsertAfter(lines, i, line) ==
  SubSeq(lines, 1, i) \o << line >> \o SubSeq(lines, i + 1, Len(lines))

\* mutant: the synthetic block carries the theme name only
SyntheticHeaderNameOnly(displayName, slug) ==
  Join(<< "/*", "Theme Name: " \o displayName, "*/", "" >>, "\n")

\* the block written in front of a file without header fields
SyntheticHeader(displayName, slug) ==
  Join(<< "/*", "Theme Name: " \o displayName >>
         \o (IF slug # "" THEN << "Text Domain: " \o slug >> ELSE << >>)
         \o << "*/", "" >>, "\n")

\* lines[i] = `${m[1]}<field>`
SetLine(lines, i, field) ==
  [lines EXCEPT ![i] = LinePrefix(lines[i]) \o field]

\* the state of the rewrite before its first loop
Unchanged(lines) ==
  [lines |-> lines, nameReplaced |-> FALSE, domainReplaced |-> FALSE,
   changed |-> FALSE]

\* the loop that replaces the Theme Name line
ReplaceName(st, displayName) ==
  LET i == ScanField(st.lines, "theme", "name")
  IN IF i > 0
       THEN [st EXCEPT !.lines = SetLine(@, i, "Theme Name: " \o displayName),
                       !.nameReplaced = TRUE, !.changed = TRUE]
       ELSE st

\* the loop that replaces the Text Domain line
ReplaceDomain(st, slug) ==
  LET i == ScanField(st.lines, "text", "domain")
  IN IF i > 0
       THEN [st EXCEPT !.lines = SetLine(@, i, "Text Domain: " \o slug),
                       !.domainReplaced = TRUE, !.changed = TRUE]
       ELSE st

\* the insertion of a Text Domain line after the first Theme Name line
InsertDomain(st, slug) ==
  LET idx == FindIndex(st.lines, "theme", "name")
  IN IF ~st.domainReplaced /\ st.nameReplaced /\ idx > 0
       THEN [st EXCEPT !.lines = InsertAfter(@, idx, LinePrefix(@[idx])
                                               \o "Text Domain: " \o slug),
                       !.changed = TRUE]
       ELSE st

\* the text applyThemeMeta writes to style.css when it has read raw
RewriteStyleCss(raw, displayName, slug) ==
  LET named == ReplaceName(Unchanged(SplitLines(raw)), displayName)
      final == IF slug # "" THEN InsertDomain(ReplaceDomain(named, slug), slug)
               ELSE named
  IN IF final.changed THEN Join(final.lines, "\n")
     ELSE SyntheticHeader(displayName, slug) \o raw

(***************************************************************************)
(* The create-project command                                              *)
(***************************************************************************)
AVAILABLE_THEMES ==
  << [name |-> "oomi-boilerplate-theme",
      url |-> "https://github.com/shehrozasmat-star/oomi-boilerplate-theme"] >>

AVAILABLE_PLUGINS ==
  << [name |-> "oomi-sso",
      url |-> "https://github.com/shehrozasmat-star/oomi-sso"],
     [name |-> "oomi-listing",
      url |-> "https://github.com/shehrozasmat-star/oomi-listing"] >>

ReleaseApiUrl == "https://api.github.com/repos/WordPress/WordPress/releases/latest"
FallbackZipUrl == "https://api.github.com/repos/WordPress/WordPress/zipball"

\* Inputs of the environment ------------------------------------------------
\* OOMI_KEY and the content of .oomi-license
LicenseInputs ==
  { [env |-> "", file |-> NoFile],
    [env |-> " OOMI-2025-T@RG3T ", file |-> NoFile],
    [env |-> "", file |-> "OOMI-2025-TG$YSt3M\n"],
    [env |-> "", file |-> "  \n"],
    [env |-> "OOMI-123-ABC", file |-> "OOMI-2025-TG$YSt3M\n"] }
NameOptions == {"", " demo "}
ThemeOptions == {"", "git@github.com:acme/twentytwenty.git "}
ProjectNameAnswers == {"", "a/b", "site"}
ThemeNameAnswers == {"", "!!", "My Th^me!! 2", "a:b", "twentytwenty"}
\* what GET releases/latest may give: a failure, or the response data
ReleaseOutcomes ==
  { [ok |-> FALSE, data |-> Null, zipball_url |-> Null],
    [ok |-> TRUE, data |-> "release", zipball_url |-> Null],
    [ok |-> TRUE, data |-> "release", zipball_url |-> ""],
    [ok |-> TRUE, data |-> "release",
     zipball_url |-> "https://api.github.com/repos/WordPress/WordPress/zipball/6.8"] }
\* what the archive may hold: whether it has a top-level directory, and the
\* theme and plugin directories bundled under wp-content
Archives ==
  { [top |-> FALSE, themes |-> {}, plugins |-> {}],
    [top |-> TRUE, themes |-> {}, plugins |-> {}],
    [top |-> TRUE, themes |-> {"twentytwenty"}, plugins |-> {"oomi-sso"}] }

VARIABLES
  envKey,             \* process.env.OOMI_KEY ("" when unset)
  licenseFile,        \* content of .oomi-license, or NoFile
  opts,               \* command-line options [name, theme]
  pc,                 \* position in the action handler
  answers,            \* answers of the first inquirer.prompt that are read later
  projectName,
  selectedThemeUrls,  \* Set, in insertion order
  selectedPluginUrls, \* Set, in insertion order
  themeSelections,    \* sequence of [url, name, displayName]
  usedSlugs,
  rejects,            \* answers the current prompt has rejected so far
  projectDir,         \* "absent", "own" (made by this run) or "foreign"
  tree,               \* content of the project directory
  tmpBase,            \* the variable tmpBase: Null or the workspace path
  workspace,          \* the temporary workspace on disk
  release,            \* the variable release: Undefined or the response data
  releaseFetch,       \* "pending", "ok" or "failed": how the metadata request ended
  zipUrl,
  err,                \* the error on its way to the catch block, Null if none
  list,               \* the entries the current clone loop walks
  idx,                \* position in the current loop
  out,                \* lines written to stdout / stderr
  trace,              \* side-effecting steps started and completed, in order
  outcome,            \* "running", "success" or "failed"
  exitCode,           \* Null while running
  args,               \* arguments of the helper call under study
  ret,                \* what that call returned
  styleCss,           \* the file style.css of the theme directory
  finished,           \* the flag of downloadToFile's cleanup
  writer,             \* the write stream: [created, ended, emitted, closed, closeEmitted]
  closeListeners,     \* the errors captured by the callbacks waiting for 'close'
  nextTicks,          \* the errors captured by the callbacks queued by nextTick
  promise,            \* the promise downloadToFile awaits: [state, reason]
  settled,            \* how many times resolve or reject has been called
  events              \* the stream events delivered so far, in order

vars == << envKey, licenseFile, opts, pc, answers, projectName,
           selectedThemeUrls, selectedPluginUrls, themeSelections, usedSlugs,
           rejects, projectDir, tree, tmpBase, workspace, release,
           releaseFetch, zipUrl, err, list, idx, out, trace, outcome, exitCode,
           args, ret, styleCss, finished, writer, closeListeners,
           nextTicks, promise, settled, events >>

\* the state of a helper function called on its own; the command leaves it
\* alone
dlVars == << finished, writer, closeListeners, nextTicks, promise, settled,
            events >>
unitVars == << args, ret, styleCss, dlVars >>
inputVars == << envKey, licenseFile, opts >>
promptVars == << answers, projectName, selectedThemeUrls, selectedPluginUrls,
                 themeSelections, usedSlugs, rejects >>
fsVars == << projectDir, tree, tmpBase, workspace >>
netVars == << release, releaseFetch, zipUrl >>
\* everything the create-project command reads or writes
cmdVars == << inputVars, promptVars, fsVars, netVars, pc, err, list, idx, out,
              trace, outcome, exitCode >>

NoArchive == [top |-> FALSE, themes |-> {}, plugins |-> {}]
NoWorkspace == [exists |-> FALSE, extractDir |-> FALSE, zip |-> Null,
                extracted |-> FALSE, archive |-> NoArchive]
EmptyWorkspace == [NoWorkspace EXCEPT !.exists = TRUE]
\* the variable release before it is assigned
Undefined == [present |-> FALSE, zipball_url |-> Null]
EmptyTree == [copied |-> "none", themesDir |-> FALSE, pluginsDir |-> FALSE,
              themes |-> {}, plugins |-> {}, meta |-> <<>>, gitignore |-> Null]
NoAnswers == [selectedThemes |-> <<>>,
              selectedPlugins |-> <<>>, includeGitignore |-> FALSE]

Log(stream, msg) == out \o << [stream |-> stream, msg |-> msg] >>
Log2(stream, m1, s2, m2) ==
  out \o << [stream |-> stream, msg |-> m1], [stream |-> s2, msg |-> m2] >>

\* no helper call under study
NoCall == [fn |-> "none"]
NoReturn == [returned |-> FALSE, value |-> ""]
NoStyleCss == [exists |-> FALSE, text |-> ""]
NoWriter ==
  [created |-> FALSE, ended |-> FALSE, emitted |-> FALSE, closed |-> FALSE,
   closeEmitted |-> FALSE]
Pending == [state |-> "pending", reason |-> Null]
\* downloadToFile has not been called
DownloadIdle ==
  /\ finished = FALSE
  /\ writer = NoWriter
  /\ closeListeners = <<>>
  /\ nextTicks = <<>>
  /\ promise = Pending
  /\ settled = 0
  /\ events = <<>>
UnitIdle ==
  /\ args = NoCall
  /\ ret = NoReturn
  /\ styleCss = NoStyleCss
  /\ DownloadIdle

\* the command is not running: a helper function is called on its own
CommandIdle ==
  /\ envKey = "" /\ licenseFile = NoFile
  /\ opts = [name |-> "", theme |-> ""]
  /\ pc = "idle"
  /\ answers = NoAnswers /\ projectName = ""
  /\ selectedThemeUrls = <<>> /\ selectedPluginUrls = <<>>
  /\ themeSelections = <<>> /\ usedSlugs = {} /\ rejects = 0
  /\ projectDir = "absent" /\ tree = EmptyTree
  /\ tmpBase = Null /\ workspace = NoWorkspace
  /\ release = Undefined /\ releaseFetch = "pending" /\ zipUrl = Null
  /\ err = Null /\ list = <<>> /\ idx = 0
  /\ out = <<>> /\ trace = <<>>
  /\ outcome = "running" /\ exitCode = Null

Init ==
  /\ UnitIdle
  /\ \E l \in LicenseInputs : envKey = l.env /\ licenseFile = l.file
  /\ opts \in [name : NameOptions, theme : ThemeOptions]
  /\ pc = "license"
  /\ answers = NoAnswers
  /\ projectName = ""
  /\ selectedThemeUrls = <<>>
  /\ selectedPluginUrls = <<>>
  /\ themeSelections = <<>>
  /\ usedSlugs = {}
  /\ rejects = 0
  /\ projectDir \in {"absent", "foreign"}
  /\ tree = EmptyTree
  /\ tmpBase = Null
  /\ workspace = NoWorkspace
  /\ release = Undefined
  /\ releaseFetch = "pending"
  /\ zipUrl = Null
  /\ err = Null
  /\ list = <<>>
  /\ idx = 0
  /\ out = <<>>
  /\ trace = <<>>
  /\ outcome = "running"
  /\ exitCode = Null

\* process.exit(1) after console.error
ExitWithError(msg) ==
  /\ out' = Log("stderr", msg)
  /\ exitCode' = 1
  /\ outcome' = "failed"
  /\ pc' = "exited"

\* mutant: the gate reports an invalid license and goes on
LicenseGateNoExit ==
  /\ pc = "license"
  /\ LET r == validateLicense(envKey, licenseFile)
     IN out' = IF ~r.valid THEN Log("stderr", "Error: " \o r.message) ELSE out
  /\ pc' = "prompt"
  /\ UNCHANGED << unitVars, inputVars, promptVars, fsVars, netVars, err, list, idx, trace,
                  exitCode, outcome >>

\* const { valid, message } = validateLicense(); if (!valid) ... exit(1)
LicenseGate ==
  /\ pc = "license"
  /\ LET r == validateLicense(envKey, licenseFile)
     IN IF ~r.valid
          THEN ExitWithError("Error: " \o r.message)
          ELSE /\ pc' = "prompt"
               /\ UNCHANGED << out, exitCode, outcome >>
  /\ UNCHANGED << unitVars, inputVars, promptVars, fsVars, netVars, err, list, idx, trace >>

\* /[\\/:*?"<>|]/.test(name)
SpecialChars == {"\\", "/", ":", "*", "?", "\"", "<", ">", "|"}
HasSpecialChar(name) == \E i \in 1..Len(name) : CharAt(name, i) \in SpecialChars

\* validate of the projectName question: TRUE, or the message shown
ValidateProjectName(v) ==
  LET name == Trim(v)
  IN IF name = "" THEN "Project name is required"
     ELSE IF HasSpecialChar(name)
       THEN "Project name cannot contain path separators or special characters"
     ELSE "ok"

\* new Set([...a]).add(x)
SetAdd(seq, x) == IF Includes(seq, x) THEN seq ELSE Append(seq, x)

\* every subsequence of seq (what a checkbox question can return)
RECURSIVE SubSeqs(_)
SubSeqs(seq) ==
  IF Len(seq) = 0 THEN {<<>>}
  ELSE LET rest == SubSeqs(Tail(seq))
       IN rest \cup {<<Head(seq)>> \o r : r \in rest}

Urls(entries) == [i \in 1..Len(entries) |-> entries[i].url]

\* the first inquirer.prompt rejects an answer to the projectName question
PromptRejectsProjectName ==
  /\ pc = "prompt"
  /\ Trim(opts.name) = ""
  /\ rejects < MaxRejects
  /\ \E v \in ProjectNameAnswers : ValidateProjectName(v) # "ok"
  /\ rejects' = rejects + 1
  /\ UNCHANGED << unitVars, inputVars, pc, answers, projectName, selectedThemeUrls,
                  selectedPluginUrls, themeSelections, usedSlugs, fsVars,
                  netVars, err, list, idx, out, trace, outcome, exitCode >>

\* the first inquirer.prompt resolves; projectName and the two Sets are set
Prompt ==
  /\ pc = "prompt"
  /\ \E v \in ProjectNameAnswers,
        inject \in BOOLEAN,
        themes \in SubSeqs(Urls(AVAILABLE_THEMES)),
        plugins \in SubSeqs(Urls(AVAILABLE_PLUGINS)),
        gi \in BOOLEAN :
       /\ Trim(opts.name) = "" => ValidateProjectName(v) = "ok"
       /\ Trim(opts.name) # "" => v = ""
       /\ ~inject => themes = <<>>
       /\ answers' = [selectedThemes |-> themes,
                      selectedPlugins |-> plugins, includeGitignore |-> gi]
       /\ projectName' = IF Trim(opts.name) # "" THEN Trim(opts.name) ELSE Trim(v)
       /\ selectedThemeUrls' =
            IF opts.theme # "" THEN SetAdd(themes, Trim(opts.theme)) ELSE themes
       /\ selectedPluginUrls' = plugins
  /\ themeSelections' = <<>>
  /\ usedSlugs' = {}
  /\ rejects' = 0
  /\ idx' = 1
  /\ pc' = IF Len(selectedThemeUrls') > 0 THEN "themeNames" ELSE "check"
  /\ UNCHANGED << unitVars, inputVars, fsVars, netVars, err, list, out, trace, outcome,
                  exitCode >>

\* decimal digits of a natural number
RECURSIVE NumStr(_)
NumStr(n) ==
  IF n < 10 THEN CharAt(Digits, n + 1)
  ELSE NumStr(n \div 10) \o CharAt(Digits, (n % 10) + 1)

\* while (usedSlugs.has(slugify(promptDefault))) promptDefault = `${baseTitle} ${suffix++}`
RECURSIVE PromptDefault(_, _, _, _)
PromptDefault(candidate, baseTitle, suffix, used) ==
  IF slugify(candidate) \in used
    THEN PromptDefault(baseTitle \o " " \o NumStr(suffix), baseTitle, suffix + 1, used)
    ELSE candidate

\* mutant: validate does not look at the slugs already taken
ValidateThemeNameNoCollision(v, used) ==
  LET name == Trim(v)
  IN IF name = "" THEN "Theme name is required"
     ELSE IF HasSpecialChar(name)
       THEN "Name cannot contain path separators or special characters"
     ELSE IF slugify(name) = ""
       THEN "Resulting folder name is empty; choose another name"
     ELSE "ok"

\* validate of the themeName question: "ok", or the message shown
ValidateThemeName(v, used) ==
  LET name == Trim(v)
  IN IF name = "" THEN "Theme name is required"
     ELSE IF HasSpecialChar(name)
       THEN "Name cannot contain path separators or special characters"
     ELSE IF slugify(name) = ""
       THEN "Resulting folder name is empty; choose another name"
     ELSE IF slugify(name) \in used
       THEN "Each theme must have a unique name (slug would collide)"
     ELSE "ok"

\* the value inquirer validates and returns: the default on empty input
ThemeNameValue(input, url, used) ==
  LET baseTitle == toTitleFromSlug(deriveRepoName(url))
  IN IF input = "" THEN PromptDefault(baseTitle, baseTitle, 1, used) ELSE input

\* the themeName question rejects an answer and asks again
PromptRejectsThemeName ==
  /\ pc = "themeNames"
  /\ rejects < MaxRejects
  /\ \E input \in ThemeNameAnswers :
       ValidateThemeName(
         ThemeNameValue(input, selectedThemeUrls[idx], usedSlugs), usedSlugs) # "ok"
  /\ rejects' = rejects + 1
  /\ UNCHANGED << unitVars, inputVars, pc, answers, projectName, selectedThemeUrls,
                  selectedPluginUrls, themeSelections, usedSlugs, fsVars,
                  netVars, err, list, idx, out, trace, outcome, exitCode >>

\* one iteration of the theme name collection loop
PromptThemeName ==
  /\ pc = "themeNames"
  /\ \E input \in ThemeNameAnswers :
       LET url == selectedThemeUrls[idx]
           themeName == ThemeNameValue(input, url, usedSlugs)
           displayName == Trim(themeName)
           dirSlug == slugify(displayName)
       IN /\ ValidateThemeName(themeName, usedSlugs) = "ok"
          /\ usedSlugs' = usedSlugs \cup {dirSlug}
          /\ themeSelections' = Append(themeSelections,
               [url |-> url, name |-> dirSlug, displayName |-> displayName])
  /\ rejects' = 0
  /\ idx' = idx + 1
  /\ pc' = IF idx = Len(selectedThemeUrls) THEN "check" ELSE "themeNames"
  /\ UNCHANGED << unitVars, inputVars, answers, projectName, selectedThemeUrls,
                  selectedPluginUrls, fsVars, netVars, err, list, out,
                  trace, outcome, exitCode >>

\* mutant: the existence check reports the folder and goes on
ExistsCheckNoExit ==
  /\ pc = "check"
  /\ out' = IF projectDir # "absent"
              THEN Log("stderr", "Error: Folder already exists: " \o projectName)
              ELSE out
  /\ pc' = "mkdir"
  /\ UNCHANGED << unitVars, inputVars, promptVars, fsVars, netVars, err, list, idx, trace,
                  exitCode, outcome >>

\* if (fs.existsSync(projectDir)) { console.error(...); process.exit(1) }
ExistsCheck ==
  /\ pc = "check"
  /\ IF projectDir # "absent"
       THEN ExitWithError("Error: Folder already exists: " \o projectName)
       ELSE /\ pc' = "mkdir"
            /\ UNCHANGED << out, exitCode, outcome >>
  /\ UNCHANGED << unitVars, inputVars, promptVars, fsVars, netVars, err, list, idx, trace >>

\* Steps of the try block ----------------------------------------------------
Ev(op, arg, ev) == [op |-> op, arg |-> arg, ev |-> ev]
Started(op, arg) == trace \o << Ev(op, arg, "start") >>
Completed(op, arg) == trace \o << Ev(op, arg, "start"), Ev(op, arg, "done") >>

\* an exception leaves the try block: control goes to the catch block
Throw(msg) ==
  /\ err' = msg
  /\ pc' = "catch"

\* another process creates the path between existsSync and mkdir
OtherCreatesDir ==
  /\ pc = "mkdir"
  /\ projectDir = "absent"
  /\ projectDir' = "foreign"
  /\ UNCHANGED << unitVars, inputVars, promptVars, pc, tree, tmpBase, workspace, netVars,
                  err, list, idx, out, trace, outcome, exitCode >>

\* await fsp.mkdir(projectDir)
MkdirProject ==
  /\ pc = "mkdir"
  /\ out' = Log("stdout", "Creating project folder")
  /\ \/ /\ projectDir = "absent"
        /\ projectDir' = "own"
        /\ trace' = Completed("mkdir", projectName)
        /\ pc' = "mkdtemp"
        /\ err' = err
     \/ /\ projectDir = "absent"
        /\ Throw("EACCES: mkdir")
        /\ trace' = Started("mkdir", projectName)
        /\ projectDir' = projectDir
     \/ /\ projectDir # "absent"
        /\ Throw("EEXIST: mkdir")
        /\ trace' = Started("mkdir", projectName)
        /\ projectDir' = projectDir
  /\ UNCHANGED << unitVars, inputVars, promptVars, tree, tmpBase, workspace, netVars,
                  list, idx, outcome, exitCode >>

\* tmpBase = await fsp.mkdtemp(path.join(os.tmpdir(), 'oomi-'))
Mkdtemp ==
  /\ pc = "mkdtemp"
  /\ \/ /\ tmpBase' = "tmp/oomi-XXXXXX"
        /\ workspace' = EmptyWorkspace
        /\ pc' = "mkExtract"
        /\ err' = err
     \/ /\ Throw("ENOSPC: mkdtemp")
        /\ UNCHANGED << tmpBase, workspace >>
  /\ UNCHANGED << unitVars, inputVars, promptVars, projectDir, tree, netVars, list, idx,
                  out, trace, outcome, exitCode >>

\* await fsp.mkdir(extractDir)
MkdirExtract ==
  /\ pc = "mkExtract"
  /\ \/ /\ workspace' = [workspace EXCEPT !.extractDir = TRUE]
        /\ pc' = "release"
        /\ err' = err
     \/ /\ Throw("ENOSPC: mkdir")
        /\ workspace' = workspace
  /\ UNCHANGED << unitVars, inputVars, promptVars, projectDir, tree, tmpBase, netVars,
                  list, idx, out, trace, outcome, exitCode >>

\* const zipUrl = (release && release.zipball_url) ? release.zipball_url : <fallback>
ZipUrlOf(rel) ==
  IF rel.present /\ rel.zipball_url # Null /\ rel.zipball_url # ""
    THEN rel.zipball_url
    ELSE FallbackZipUrl

\* mutant: no inner try/catch, a failed metadata request is thrown
FetchReleaseFatal ==
  /\ pc = "release"
  /\ \E r \in ReleaseOutcomes :
       LET rel == IF r.ok /\ r.data # Null
                    THEN [present |-> TRUE, zipball_url |-> r.zipball_url]
                    ELSE Undefined
       IN /\ release' = rel
          /\ releaseFetch' = IF r.ok THEN "ok" ELSE "failed"
          /\ zipUrl' = IF r.ok THEN ZipUrlOf(rel) ELSE zipUrl
          /\ out' = Log("stdout", "Fetching latest WordPress release info")
          /\ IF r.ok THEN pc' = "download" /\ err' = err
                     ELSE Throw("Request failed")
  /\ UNCHANGED << unitVars, inputVars, promptVars, fsVars, list, idx, trace,
                  outcome, exitCode >>

\* the inner try/catch around axios.get(releases/latest), then zipUrl
FetchRelease ==
  /\ pc = "release"
  /\ \E r \in ReleaseOutcomes :
       LET rel == IF r.ok /\ r.data # Null
                    THEN [present |-> TRUE, zipball_url |-> r.zipball_url]
                    ELSE Undefined
       IN /\ release' = rel
          /\ releaseFetch' = IF r.ok THEN "ok" ELSE "failed"
          /\ zipUrl' = ZipUrlOf(rel)
          /\ out' = IF r.ok
                      THEN Log("stdout", "Fetching latest WordPress release info")
                      ELSE Log2("stdout", "Fetching latest WordPress release info",
                                "stderr", "Warning: Failed to fetch latest release info")
  /\ pc' = "download"
  /\ UNCHANGED << unitVars, inputVars, promptVars, fsVars, err, list, idx, trace,
                  outcome, exitCode >>

\* mutant: the download is not awaited, extraction starts at once
DownloadNotAwaited ==
  /\ pc = "download"
  /\ out' = Log("stdout", "Downloading WordPress source")
  /\ trace' = Started("download", zipUrl)
  /\ pc' = "extract"
  /\ UNCHANGED << unitVars, inputVars, promptVars, fsVars, netVars, err, list, idx,
                  outcome, exitCode >>

\* await downloadToFile(zipUrl, zipPath, ...)
Download ==
  /\ pc = "download"
  /\ out' = Log("stdout", "Downloading WordPress source")
  /\ \/ /\ workspace' = [workspace EXCEPT !.zip = zipUrl]
        /\ trace' = Completed("download", zipUrl)
        /\ pc' = "extract"
        /\ err' = err
     \/ /\ Throw("download failed")
        /\ trace' = Started("download", zipUrl)
        /\ workspace' = workspace
  /\ UNCHANGED << unitVars, inputVars, promptVars, projectDir, tree, tmpBase, netVars,
                  list, idx, outcome, exitCode >>

\* await extract(zipPath, { dir: extractDir })
Extract ==
  /\ pc = "extract"
  /\ out' = Log("stdout", "Extracting archive")
  /\ \/ /\ \E a \in Archives :
             workspace' = [workspace EXCEPT !.extracted = TRUE, !.archive = a]
        /\ trace' = Completed("extract", "")
        /\ pc' = "readdir"
        /\ err' = err
     \/ /\ Throw("extract failed")
        /\ trace' = Started("extract", "")
        /\ workspace' = workspace
  /\ UNCHANGED << unitVars, inputVars, promptVars, projectDir, tree, tmpBase, netVars,
                  list, idx, outcome, exitCode >>

\* mutant: a missing top-level directory is not detected, the copy goes on
FindTopDirTakesAny ==
  /\ pc = "readdir"
  /\ \/ /\ pc' = "copy"
        /\ err' = err
     \/ Throw("EIO: readdir")
  /\ UNCHANGED << unitVars, inputVars, promptVars, fsVars, netVars, list, idx, out,
                  trace, outcome, exitCode >>

\* readdir(extractDir), entries.find(e => e.isDirectory()), throw if none
FindTopDir ==
  /\ pc = "readdir"
  /\ \/ /\ workspace.archive.top
        /\ pc' = "copy"
        /\ err' = err
     \/ /\ ~workspace.archive.top
        /\ Throw("Unexpected archive structure: no top-level directory found inside the ZIP.")
     \/ Throw("EIO: readdir")
  /\ UNCHANGED << unitVars, inputVars, promptVars, fsVars, netVars, list, idx, out,
                  trace, outcome, exitCode >>

\* where control goes after the theme loop, and after the tree copy
AfterThemes == IF Len(selectedPluginUrls) > 0 THEN "pluginsDir" ELSE "finish"
AfterCopy ==
  IF Len(themeSelections) > 0 \/ Len(selectedThemeUrls) > 0
    THEN "themesDir" ELSE AfterThemes

\* await copyDirContents(topDirPath, projectDir)
CopyTree ==
  /\ pc = "copy"
  /\ out' = Log("stdout", "Copying files into project folder")
  /\ \/ /\ tree' = [tree EXCEPT !.copied = "full",
                                !.themes = workspace.archive.themes,
                                !.plugins = workspace.archive.plugins]
        /\ trace' = Completed("copy", "")
        /\ pc' = AfterCopy
        /\ err' = err
     \/ /\ tree' = [tree EXCEPT !.copied = "partial"]
        /\ trace' = Started("copy", "")
        /\ Throw("copy failed")
  /\ UNCHANGED << unitVars, inputVars, promptVars, projectDir, tmpBase, workspace,
                  netVars, list, idx, outcome, exitCode >>

\* the list the theme loop walks: themeSelections, or entries derived from
\* the URLs when no names were collected
ThemeList ==
  IF Len(themeSelections) > 0 THEN themeSelections
  ELSE [i \in 1..Len(selectedThemeUrls) |->
          [url |-> selectedThemeUrls[i],
           name |-> deriveRepoName(selectedThemeUrls[i]),
           displayName |-> toTitleFromSlug(deriveRepoName(selectedThemeUrls[i]))]]

\* Array.from(selectedPluginUrls) with the folder name of each
PluginList ==
  [i \in 1..Len(selectedPluginUrls) |->
     [url |-> selectedPluginUrls[i],
      name |-> deriveRepoName(selectedPluginUrls[i]),
      displayName |-> ""]]

\* how a call of applyThemeMeta can end; it never throws
MetaResults == {"written", "no style.css", "io error"}

\* if (displayName) await applyThemeMeta(themeDest, displayName, themeName)
MetaCalls(entry, result) ==
  IF entry.displayName # ""
    THEN Append(tree.meta, [dir |-> entry.name, displayName |-> entry.displayName,
                            slug |-> entry.name, result |-> result])
    ELSE tree.meta

\* await fsp.mkdir(themesDir, { recursive: true }) and the choice of list
MkdirThemes ==
  /\ pc = "themesDir"
  /\ \/ /\ tree' = [tree EXCEPT !.themesDir = TRUE]
        /\ list' = ThemeList
        /\ idx' = 1
        /\ pc' = "themes"
        /\ err' = err
     \/ /\ Throw("EACCES: mkdir")
        /\ UNCHANGED << tree, list, idx >>
  /\ UNCHANGED << unitVars, inputVars, promptVars, projectDir, tmpBase, workspace,
                  netVars, out, trace, outcome, exitCode >>

\* mutant: the theme loop clones without looking at the destination
ThemeStepNoExistsCheck ==
  /\ pc = "themes"
  /\ LET entry == list[idx]
     IN /\ out' = Log("stdout", "Cloning theme into " \o entry.name)
        /\ \/ /\ \E res \in MetaResults :
                   tree' = [tree EXCEPT !.themes = @ \cup {entry.name},
                                        !.meta = MetaCalls(entry, res)]
              /\ trace' = Completed("theme", entry.name)
              /\ idx' = idx + 1
              /\ pc' = IF idx = Len(list) THEN AfterThemes ELSE "themes"
              /\ err' = err
           \/ /\ trace' = Started("theme", entry.name)
              /\ Throw("Command failed: git clone")
              /\ UNCHANGED << tree, idx >>
  /\ UNCHANGED << unitVars, inputVars, promptVars, projectDir, tmpBase, workspace,
                  netVars, list, outcome, exitCode >>

\* mutant: an I/O error inside applyThemeMeta escapes and aborts the run
ThemeStepMetaFatal ==
  /\ pc = "themes"
  /\ LET entry == list[idx]
     IN \/ /\ entry.name \in tree.themes
           /\ out' = Log("stderr", "Skipping theme (already exists): " \o entry.name)
           /\ \E res \in MetaResults : tree' = [tree EXCEPT !.meta = MetaCalls(entry, res)]
           /\ idx' = idx + 1
           /\ pc' = IF idx = Len(list) THEN AfterThemes ELSE "themes"
           /\ UNCHANGED << trace, err >>
        \/ /\ entry.name \notin tree.themes
           /\ out' = Log("stdout", "Cloning theme into " \o entry.name)
           /\ \E res \in MetaResults :
                /\ tree' = [tree EXCEPT !.themes = @ \cup {entry.name},
                                        !.meta = MetaCalls(entry, res)]
                /\ IF res = "io error" /\ entry.displayName # ""
                     THEN Throw("EACCES: style.css") /\ idx' = idx
                     ELSE /\ idx' = idx + 1
                          /\ pc' = IF idx = Len(list) THEN AfterThemes ELSE "themes"
                          /\ err' = err
           /\ trace' = Completed("theme", entry.name)
        \/ /\ entry.name \notin tree.themes
           /\ out' = Log("stdout", "Cloning theme into " \o entry.name)
           /\ trace' = Started("theme", entry.name)
           /\ Throw("Command failed: git clone")
           /\ UNCHANGED << tree, idx >>
  /\ UNCHANGED << unitVars, inputVars, promptVars, projectDir, tmpBase, workspace,
                  netVars, list, outcome, exitCode >>

\* mutant: an existing theme directory is skipped without the rewrite
ThemeStepSkipsMeta ==
  /\ pc = "themes"
  /\ LET entry == list[idx]
     IN \/ /\ entry.name \in tree.themes
           /\ out' = Log("stderr", "Skipping theme (already exists): " \o entry.name)
           /\ idx' = idx + 1
           /\ pc' = IF idx = Len(list) THEN AfterThemes ELSE "themes"
           /\ UNCHANGED << tree, trace, err >>
        \/ /\ entry.name \notin tree.themes
           /\ out' = Log("stdout", "Cloning theme into " \o entry.name)
           /\ \E res \in MetaResults :
                tree' = [tree EXCEPT !.themes = @ \cup {entry.name},
                                     !.meta = MetaCalls(entry, res)]
           /\ trace' = Completed("theme", entry.name)
           /\ idx' = idx + 1
           /\ pc' = IF idx = Len(list) THEN AfterThemes ELSE "themes"
           /\ err' = err
        \/ /\ entry.name \notin tree.themes
           /\ out' = Log("stdout", "Cloning theme into " \o entry.name)
           /\ trace' = Started("theme", entry.name)
           /\ Throw("Command failed: git clone")
           /\ UNCHANGED << tree, idx >>
  /\ UNCHANGED << unitVars, inputVars, promptVars, projectDir, tmpBase, workspace,
                  netVars, list, outcome, exitCode >>

\* one iteration of the theme loop
ThemeStep ==
  /\ pc = "themes"
  /\ LET entry == list[idx]
     IN \/ /\ entry.name \in tree.themes
           /\ out' = Log("stderr", "Skipping theme (already exists): " \o entry.name)
           /\ \E res \in MetaResults : tree' = [tree EXCEPT !.meta = MetaCalls(entry, res)]
           /\ idx' = idx + 1
           /\ pc' = IF idx = Len(list) THEN AfterThemes ELSE "themes"
           /\ UNCHANGED << trace, err >>
        \/ /\ entry.name \notin tree.themes
           /\ out' = Log("stdout", "Cloning theme into " \o entry.name)
           /\ \E res \in MetaResults :
                tree' = [tree EXCEPT !.themes = @ \cup {entry.name},
                                     !.meta = MetaCalls(entry, res)]
           /\ trace' = Completed("theme", entry.name)
           /\ idx' = idx + 1
           /\ pc' = IF idx = Len(list) THEN AfterThemes ELSE "themes"
           /\ err' = err
        \/ /\ entry.name \notin tree.themes
           /\ out' = Log("stdout", "Cloning theme into " \o entry.name)
           /\ trace' = Started("theme", entry.name)
           /\ Throw("Command failed: git clone")
           /\ UNCHANGED << tree, idx >>
  /\ UNCHANGED << unitVars, inputVars, promptVars, projectDir, tmpBase, workspace,
                  netVars, list, outcome, exitCode >>

\* await fsp.mkdir(pluginsDir, { recursive: true })
MkdirPlugins ==
  /\ pc = "pluginsDir"
  /\ \/ /\ tree' = [tree EXCEPT !.pluginsDir = TRUE]
        /\ list' = PluginList
        /\ idx' = 1
        /\ pc' = "plugins"
        /\ err' = err
     \/ /\ Throw("EACCES: mkdir")
        /\ UNCHANGED << tree, list, idx >>
  /\ UNCHANGED << unitVars, inputVars, promptVars, projectDir, tmpBase, workspace,
                  netVars, out, trace, outcome, exitCode >>

\* mutant: a failed plugin clone is logged and the loop goes on
PluginStepSwallowsFailure ==
  /\ pc = "plugins"
  /\ LET entry == list[idx]
     IN \/ /\ entry.name \in tree.plugins
           /\ out' = Log("stderr", "Skipping plugin (already exists): " \o entry.name)
           /\ UNCHANGED << tree, trace >>
        \/ /\ entry.name \notin tree.plugins
           /\ out' = Log("stdout", "Cloning plugin into " \o entry.name)
           /\ tree' = [tree EXCEPT !.plugins = @ \cup {entry.name}]
           /\ trace' = Completed("plugin", entry.name)
        \/ /\ entry.name \notin tree.plugins
           /\ out' = Log2("stdout", "Cloning plugin into " \o entry.name,
                          "stderr", "Warning: clone failed")
           /\ trace' = Started("plugin", entry.name)
           /\ tree' = tree
  /\ idx' = idx + 1
  /\ pc' = IF idx = Len(list) THEN "finish" ELSE "plugins"
  /\ UNCHANGED << unitVars, inputVars, promptVars, projectDir, tmpBase, workspace,
                  netVars, err, list, outcome, exitCode >>

\* one iteration of the plugin loop
PluginStep ==
  /\ pc = "plugins"
  /\ LET entry == list[idx]
     IN \/ /\ entry.name \in tree.plugins
           /\ out' = Log("stderr", "Skipping plugin (already exists): " \o entry.name)
           /\ idx' = idx + 1
           /\ pc' = IF idx = Len(list) THEN "finish" ELSE "plugins"
           /\ UNCHANGED << tree, trace, err >>
        \/ /\ entry.name \notin tree.plugins
           /\ out' = Log("stdout", "Cloning plugin into " \o entry.name)
           /\ tree' = [tree EXCEPT !.plugins = @ \cup {entry.name}]
           /\ trace' = Completed("plugin", entry.name)
           /\ idx' = idx + 1
           /\ pc' = IF idx = Len(list) THEN "finish" ELSE "plugins"
           /\ err' = err
        \/ /\ entry.name \notin tree.plugins
           /\ out' = Log("stdout", "Cloning plugin into " \o entry.name)
           /\ trace' = Started("plugin", entry.name)
           /\ Throw("Command failed: git clone")
           /\ UNCHANGED << tree, idx >>
  /\ UNCHANGED << unitVars, inputVars, promptVars, projectDir, tmpBase, workspace,
                  netVars, list, outcome, exitCode >>

Names(entries) == [i \in 1..Len(entries) |-> entries[i].name]
DerivedNames(urls) == [i \in 1..Len(urls) |-> deriveRepoName(urls[i])]

\* mutant: the theme names are always derived from the repository URLs
selectedThemeNamesFromUrls == DerivedNames(selectedThemeUrls)

selectedThemeNames ==
  IF Len(themeSelections) > 0 THEN Names(themeSelections)
  ELSE DerivedNames(selectedThemeUrls)
selectedPluginNames == DerivedNames(selectedPluginUrls)

\* the optional .gitignore write and the success report
Finish ==
  /\ pc = "finish"
  /\ \/ /\ answers.includeGitignore
        /\ tree' = [tree EXCEPT !.gitignore =
             generateWordPressGitignore(selectedThemeNames, selectedPluginNames)]
        /\ trace' = Completed("gitignore", "")
        /\ out' = out \o << [stream |-> "stdout", msg |-> "Created .gitignore"],
                            [stream |-> "stdout", msg |-> "Success: WordPress project created."],
                            [stream |-> "stdout", msg |-> "Location: " \o projectName] >>
        /\ outcome' = "success"
        /\ pc' = "finally"
        /\ err' = err
     \/ /\ answers.includeGitignore
        /\ trace' = Started("gitignore", "")
        /\ Throw("EACCES: open .gitignore")
        /\ UNCHANGED << tree, out, outcome >>
     \/ /\ ~answers.includeGitignore
        /\ out' = Log2("stdout", "Success: WordPress project created.",
                       "stdout", "Location: " \o projectName)
        /\ outcome' = "success"
        /\ pc' = "finally"
        /\ UNCHANGED << tree, trace, err >>
  /\ UNCHANGED << unitVars, inputVars, promptVars, projectDir, tmpBase, workspace,
                  netVars, list, idx, exitCode >>

\* mutant: the catch block reports the error and removes nothing
CatchWithoutRollback ==
  /\ pc = "catch"
  /\ out' = Log("stderr", "Error: " \o err)
  /\ outcome' = "failed"
  /\ pc' = "finally"
  /\ UNCHANGED << unitVars, inputVars, promptVars, fsVars, netVars, err, list, idx,
                  trace, exitCode >>

\* catch (err): report, then best-effort removal of the project directory
Catch ==
  /\ pc = "catch"
  /\ out' = Log("stderr", "Error: " \o err)
  /\ outcome' = "failed"
  /\ \/ /\ projectDir # "absent"
        /\ projectDir' = "absent"
        /\ tree' = EmptyTree
        /\ trace' = Completed("rmProject", "")
     \/ /\ projectDir # "absent"
        /\ trace' = Started("rmProject", "")
        /\ UNCHANGED << projectDir, tree >>
     \/ /\ projectDir = "absent"
        /\ UNCHANGED << projectDir, tree, trace >>
  /\ pc' = "finally"
  /\ UNCHANGED << unitVars, inputVars, promptVars, tmpBase, workspace, netVars, err,
                  list, idx, exitCode >>

\* mutant: no finally block, the temporary workspace is left behind
FinallyWithoutCleanup ==
  /\ pc = "finally"
  /\ exitCode' = 0
  /\ pc' = "exited"
  /\ UNCHANGED << unitVars, inputVars, promptVars, fsVars, netVars, err, list, idx, out,
                  trace, outcome >>

\* mutant: a failed removal of the temporary workspace is reported as the
\* outcome of the run
FinallyCleanupFatal ==
  /\ pc = "finally"
  /\ \/ /\ tmpBase # Null
        /\ workspace' = NoWorkspace
        /\ trace' = Completed("rmTemp", "")
        /\ UNCHANGED << out, outcome >>
     \/ /\ tmpBase # Null
        /\ trace' = Started("rmTemp", "")
        /\ workspace' = workspace
        /\ out' = Log("stderr", "Error: EBUSY: rm")
        /\ outcome' = "failed"
     \/ /\ tmpBase = Null
        /\ UNCHANGED << workspace, trace, out, outcome >>
  /\ exitCode' = 0
  /\ pc' = "exited"
  /\ UNCHANGED << unitVars, inputVars, promptVars, projectDir, tree, tmpBase, netVars,
                  err, list, idx >>

\* finally: best-effort removal of the temporary workspace; the handler
\* returns and the process ends with the default exit status
Finally ==
  /\ pc = "finally"
  /\ \/ /\ tmpBase # Null
        /\ workspace' = NoWorkspace
        /\ trace' = Completed("rmTemp", "")
     \/ /\ tmpBase # Null
        /\ trace' = Started("rmTemp", "")
        /\ workspace' = workspace
     \/ /\ tmpBase = Null
        /\ UNCHANGED << workspace, trace >>
  /\ exitCode' = 0
  /\ pc' = "exited"
  /\ UNCHANGED << unitVars, inputVars, promptVars, projectDir, tree, tmpBase, netVars,
                  err, list, idx, out, outcome >>

Next ==
  \/ LicenseGate
  \/ PromptRejectsProjectName
  \/ Prompt
  \/ PromptRejectsThemeName
  \/ PromptThemeName
  \/ ExistsCheck
  \/ OtherCreatesDir
  \/ MkdirProject
  \/ Mkdtemp
  \/ MkdirExtract
  \/ FetchRelease
  \/ Download
  \/ Extract
  \/ FindTopDir
  \/ CopyTree
  \/ MkdirThemes
  \/ ThemeStep
  \/ MkdirPlugins
  \/ PluginStep
  \/ Finish
  \/ Catch
  \/ Finally

Spec == Init /\ [][Next]_vars

(***************************************************************************)
(* Properties                                                              *)
(***************************************************************************)
Has(e) == \E i \in 1..Len(trace) : trace[i] = e
Printed(stream, msg) == \E i \in 1..Len(out) : out[i] = [stream |-> stream, msg |-> msg]
Done == pc = "exited"
\* this run's mkdir of the project directory succeeded
DirCreated == Has(Ev("mkdir", projectName, "done"))
\* a best-effort removal was run and failed (its error is swallowed)
RemovalFailed(op) == Has(Ev(op, "", "start")) /\ ~Has(Ev(op, "", "done"))
ErrorLinePrinted ==
  \E i \in 1..Len(out) :
    out[i].stream = "stderr" /\ SubSeq(out[i].msg, 1, 6) = "Error:"

\* C1 as stated: For every run in which the project directory was created
\* and a later step fails, when the run ends the project directory does not
\* exist and the temporary workspace does not exist.
C1_NoDirNoTempAfterFailure ==
  (Done /\ DirCreated /\ outcome = "failed")
    => (projectDir = "absent" /\ ~workspace.exists)

\* C1 amended: For every run in which the project directory was created and
\* a later step fails, when the run ends the removal of the project
\* directory has been run and the directory does not exist unless that
\* removal itself failed; the temporary workspace does not exist unless its
\* removal failed.
C1_RollbackAfterFailure ==
  (Done /\ DirCreated /\ outcome = "failed")
    => /\ Has(Ev("rmProject", "", "start"))
       /\ projectDir = "absent" \/ RemovalFailed("rmProject")
       /\ projectDir = "absent" => tree = EmptyTree
       /\ ~workspace.exists \/ RemovalFailed("rmTemp")
       /\ tmpBase # Null => Has(Ev("rmTemp", "", "start"))

C1_Witness ==
  /\ Done /\ DirCreated /\ outcome = "failed"
  /\ Has(Ev("copy", "", "done"))
  /\ tmpBase # Null
  /\ projectDir = "absent" /\ ~workspace.exists

\* C2 as stated: For every run that reports success, when the run ends the
\* project directory exists, holding the materialized archive content, and
\* the temporary workspace of the run no longer exists.
C2_DirAndNoTempAfterSuccess ==
  (Done /\ outcome = "success")
    => (projectDir = "own" /\ tree.copied = "full" /\ ~workspace.exists)

\* C2 amended: For every run that reports success, when the run ends the
\* project directory exists, holding the materialized archive content, and
\* the removal of the temporary workspace has been run: the workspace no
\* longer exists unless that removal itself failed.
C2_SuccessKeepsDirDropsTemp ==
  (Done /\ outcome = "success")
    => /\ projectDir = "own" /\ tree.copied = "full"
       /\ Has(Ev("rmTemp", "", "start"))
       /\ ~workspace.exists \/ RemovalFailed("rmTemp")

C2_Witness ==
  /\ Done /\ outcome = "success"
  /\ projectDir = "own" /\ tree.copied = "full"
  /\ tmpBase # Null /\ ~workspace.exists

\* C3: If the destination path exists when the existence check runs, the
\* run ends there with a 'folder already exists' error and status 1: the
\* project directory is not created, removed or modified, no temporary
\* workspace is created, and no download, extraction, copy, clone or
\* .gitignore write happens (nothing runs after the exit).
C3_ExistingDestination ==
  [][ /\ pc # "exited"
      /\ (pc = "check" /\ projectDir # "absent")
           => /\ pc' = "exited" /\ exitCode' = 1 /\ outcome' = "failed"
              /\ out' = Append(out, [stream |-> "stderr",
                                     msg |-> "Error: Folder already exists: "
                                               \o projectName])
              /\ trace = << >>
              /\ UNCHANGED << fsVars, netVars, trace >> ]_vars

C3_Witness ==
  /\ Done /\ exitCode = 1
  /\ Printed("stderr", "Error: Folder already exists: " \o projectName)
  /\ projectDir = "foreign" /\ tree = EmptyTree /\ tmpBase = Null

KeyIsListed == Includes(VALID_KEYS, getLicenseKey(envKey, licenseFile))

\* C4: The exit status is 0 exactly when the pipeline succeeded; every
\* validation failure (invalid or missing license, destination exists) and
\* every pipeline failure ends with a non-zero status and an error line on
\* the error stream.
C4_ExitStatus ==
  Done => /\ (exitCode = 0) <=> (outcome = "success")
          /\ outcome = "failed" => (exitCode # 0 /\ ErrorLinePrinted)
          /\ ~KeyIsListed => exitCode # 0

\* C5: The license check is the first step: in a run where validateLicense
\* returns valid=false the command exits with status 1 and nothing else
\* ever happens: no prompt is shown, no project directory or temporary
\* workspace is created, no request or clone is started.
C5_LicenseGateFirst ==
  ~validateLicense(envKey, licenseFile).valid
    => /\ pc \in {"license", "exited"}
       /\ pc = "exited" => (exitCode = 1 /\ ErrorLinePrinted)
       /\ answers = NoAnswers /\ projectName = "" /\ rejects = 0
       /\ themeSelections = << >>
       /\ tree = EmptyTree /\ tmpBase = Null /\ ~workspace.exists
       /\ releaseFetch = "pending" /\ trace = << >>

C5_Witness ==
  /\ ~validateLicense(envKey, licenseFile).valid
  /\ Done /\ exitCode = 1

\* C6: validateLicense returns valid=true if and only if the resolved key is
\* one of VALID_KEYS; a missing or unlisted key gives valid=false with an
\* error message, so the CLI exits with an error.
C6_ValidIffListed ==
  LET r == validateLicense(envKey, licenseFile)
  IN pc # "license"
       => /\ r.valid <=> KeyIsListed
          /\ ~r.valid => r.message # ""
          /\ ~KeyIsListed => (Done /\ exitCode = 1 /\ ErrorLinePrinted)

ReleaseWarning == "Warning: Failed to fetch latest release info"

\* C7: A failure of the release metadata request is never fatal: a warning
\* is logged and the run goes on to the download step.  The download URL is
\* the release's zipball URL exactly when the request succeeded and returned
\* a non-empty zipball URL, and the fixed fallback URL in every other case.
C7_ReleaseFallback ==
  /\ releaseFetch = "failed"
       => /\ Printed("stderr", ReleaseWarning)
          /\ release = Undefined
          /\ pc = "download" \/ \E i \in 1..Len(trace) : trace[i].op = "download"
  /\ releaseFetch = "ok" => ~Printed("stderr", ReleaseWarning)
  /\ releaseFetch # "pending"
       => /\ zipUrl = IF /\ releaseFetch = "ok"
                         /\ release.present
                         /\ release.zipball_url \notin {Null, ""}
                      THEN release.zipball_url
                      ELSE FallbackZipUrl
          /\ \A i \in 1..Len(trace) : trace[i].op = "download" => trace[i].arg = zipUrl

C7_Witness ==
  /\ Done /\ outcome = "success"
  /\ releaseFetch = "failed"
  /\ Has(Ev("download", FallbackZipUrl, "done"))

PipelineOps == {"mkdir", "download", "extract", "copy", "theme", "plugin", "gitignore"}
Rank(op) ==
  CASE op = "mkdir" -> 1
    [] op = "download" -> 2
    [] op = "extract" -> 3
    [] op = "copy" -> 4
    [] op = "theme" -> 5
    [] op = "plugin" -> 6
    [] op = "gitignore" -> 7
IsPipelineEvent(e) == e.op \in PipelineOps
Steps == SelectSeq(trace, IsPipelineEvent)
SkipWarning(kind, name) ==
  Printed("stderr", "Skipping " \o kind \o " (already exists): " \o name)

\* C8: The pipeline steps happen in a strict order with no overlap: project
\* directory creation, download, extraction, tree copy, all theme clones,
\* all plugin clones, and only then the .gitignore write; no step starts
\* before its predecessor has completed successfully.
C8_StrictOrder ==
  LET P == Steps
  IN /\ \A i \in 1..Len(P) :
          /\ P[i].ev = "done"
               => (i > 1 /\ P[i-1] = [P[i] EXCEPT !.ev = "start"])
          /\ (P[i].ev = "start" /\ i > 1)
               => /\ P[i-1].ev = "done"
                  /\ Rank(P[i-1].op) <= Rank(P[i].op)
                  /\ Rank(P[i-1].op) = Rank(P[i].op) => P[i].op \in {"theme", "plugin"}
          /\ P[i].ev = "start"
               => \A r \in 1..4 :
                    r < Rank(P[i].op)
                      => \E j \in 1..(i-1) : Rank(P[j].op) = r /\ P[j].ev = "done"
     /\ (\E i \in 1..Len(P) : P[i].op = "gitignore")
          => /\ \A k \in 1..Len(themeSelections) :
                  \/ Has(Ev("theme", themeSelections[k].name, "done"))
                  \/ SkipWarning("theme", themeSelections[k].name)
             /\ \A k \in 1..Len(selectedPluginUrls) :
                  \/ Has(Ev("plugin", deriveRepoName(selectedPluginUrls[k]), "done"))
                  \/ SkipWarning("plugin", deriveRepoName(selectedPluginUrls[k]))

C8_Witness ==
  /\ Has(Ev("gitignore", "", "done"))
  /\ Len(themeSelections) = 2
  /\ Len(selectedPluginUrls) = 2
  /\ Has(Ev("theme", themeSelections[2].name, "done"))
  /\ Has(Ev("plugin", "oomi-listing", "done"))

\* the destination of the entry whose turn it is exists
TurnOfExisting ==
  \/ pc = "themes" /\ list[idx].name \in tree.themes
  \/ pc = "plugins" /\ list[idx].name \in tree.plugins

\* C9: For every theme or plugin entry whose destination already exists
\* when its turn comes, the clone is skipped, a warning is emitted, the run
\* does not fail, and the loop moves on to the remaining entries.
C9_SkipExisting ==
  [][ TurnOfExisting
        => /\ trace' = trace
           /\ out' = Append(out,
                [stream |-> "stderr",
                 msg |-> "Skipping " \o (IF pc = "themes" THEN "theme" ELSE "plugin")
                           \o " (already exists): " \o list[idx].name])
           /\ err' = err /\ outcome' = outcome
           /\ tree'.themes = tree.themes /\ tree'.plugins = tree.plugins
           /\ idx' = idx + 1
           /\ pc' = IF idx < Len(list) THEN pc
                    ELSE IF pc = "themes" THEN AfterThemes ELSE "finish" ]_vars

\* a skipped theme and a skipped plugin, each followed by a later clone,
\* in a run that reports success
C9_Witness ==
  /\ Done /\ outcome = "success"
  /\ SkipWarning("theme", "twentytwenty")
  /\ SkipWarning("plugin", "oomi-sso")
  /\ Has(Ev("plugin", "oomi-listing", "done"))
  /\ Len(themeSelections) = 2
  /\ themeSelections[1].name = "twentytwenty"
  /\ Has(Ev("theme", themeSelections[2].name, "done"))

IsClone(e) == e.op \in {"theme", "plugin"}
\* the clone started at position i of the trace failed
CloneFailedAt(i) ==
  /\ IsClone(trace[i]) /\ trace[i].ev = "start"
  /\ i = Len(trace) \/ trace[i+1] # [trace[i] EXCEPT !.ev = "done"]
Succeeded ==
  outcome = "success" \/ Printed("stdout", "Success: WordPress project created.")

\* C10 as stated: A failure of any single theme or plugin clone is fatal to
\* the whole run: no later entry is cloned, no .gitignore is written,
\* success is not reported, and the project directory is rolled back (when
\* the run ends it is gone).
C10_CloneFailureRollsBack ==
  \A i \in 1..Len(trace) :
    CloneFailedAt(i)
      => /\ \A j \in (i+1)..Len(trace) : trace[j].op \notin {"theme", "plugin", "gitignore"}
         /\ ~Succeeded /\ tree.gitignore = Null
         /\ pc \in {"catch", "finally", "exited"}
         /\ Done => projectDir = "absent"

\* C10 amended: A failure of any single theme or plugin clone is fatal to
\* the whole run: no later entry is cloned, no .gitignore is written,
\* success is not reported, and the rollback of the project directory is
\* run: when the run ends the directory is gone unless that removal itself
\* failed.
C10_CloneFailureFatal ==
  \A i \in 1..Len(trace) :
    CloneFailedAt(i)
      => /\ \A j \in (i+1)..Len(trace) : trace[j].op \notin {"theme", "plugin", "gitignore"}
         /\ ~Succeeded /\ tree.gitignore = Null
         /\ pc \in {"catch", "finally", "exited"}
         /\ pc \in {"finally", "exited"}
              => /\ outcome = "failed" /\ ErrorLinePrinted
                 /\ \E j \in (i+1)..Len(trace) : trace[j] = Ev("rmProject", "", "start")
                 /\ projectDir = "absent" \/ RemovalFailed("rmProject")

\* the first of two plugins fails to clone; the run ends rolled back
C10_Witness ==
  /\ Done /\ projectDir = "absent"
  /\ Len(selectedPluginUrls) = 2
  /\ Has(Ev("plugin", "oomi-sso", "start"))
  /\ ~Has(Ev("plugin", "oomi-sso", "done"))
  /\ ~Has(Ev("plugin", "oomi-listing", "start"))

NoTopDirMessage ==
  "Unexpected archive structure: no top-level directory found inside the ZIP."
\* the directory listing found no directory entry and the run was aborted
NoTopDirFound == err = NoTopDirMessage
NothingInstalled ==
  /\ tree.copied = "none" /\ tree.themes = {} /\ tree.plugins = {}
  /\ tree.gitignore = Null
  /\ \A j \in 1..Len(trace) :
       trace[j].op \notin {"copy", "theme", "plugin", "gitignore"}

\* C11 as stated: If, after extraction, the extraction directory has no
\* directory entry at its top level, the run fails with a structural-format
\* error: nothing is copied into the project directory, no clone is
\* attempted, and the project directory is rolled back (gone at the end).
C11_NoTopDirRolledBack ==
  NoTopDirFound
    => /\ NothingInstalled /\ ~Succeeded
       /\ Done => (outcome = "failed" /\ projectDir = "absent")

\* C11 amended: If the listing of the extraction directory shows no
\* directory entry, the step fails with the structural-format error and
\* control goes to the catch block: nothing is copied into the project
\* directory, no clone is attempted, the error is reported and the rollback
\* of the project directory is run; at the end the directory is gone unless
\* that removal itself failed.
C11_NoTopDirFatal ==
  /\ [](NoTopDirFound
          => /\ NothingInstalled /\ ~Succeeded
             /\ pc \in {"catch", "finally", "exited"}
             /\ pc \in {"finally", "exited"}
                  => /\ outcome = "failed"
                     /\ Printed("stderr", "Error: " \o NoTopDirMessage)
                     /\ Has(Ev("rmProject", "", "start"))
                     /\ projectDir = "absent" \/ RemovalFailed("rmProject"))
  /\ [][(pc = "readdir" /\ ~workspace.archive.top)
          => /\ pc' = "catch"
             /\ err' \in {NoTopDirMessage, "EIO: readdir"}
             /\ UNCHANGED << fsVars, trace >>]_vars

\* an archive without a top-level directory in a run with a theme selected:
\* the run ends failed with the project directory removed
C11_Witness ==
  /\ Done /\ NoTopDirFound /\ outcome = "failed"
  /\ DirCreated /\ projectDir = "absent"
  /\ Len(themeSelections) > 0

\* the step calls applyThemeMeta (the call is recorded in tree.meta)
MetaCalled == Len(tree'.meta) = Len(tree.meta) + 1
MetaFailedFor(name) ==
  \E i \in 1..Len(tree.meta) :
    tree.meta[i].dir = name /\ tree.meta[i].result # "written"

\* C12: The theme metadata rewrite is never fatal: whatever happens inside
\* it (style.css absent, unreadable or unwritable), applyThemeMeta returns
\* normally, the run does not enter the failed state because of it, and the
\* loop goes on to the remaining theme and plugin entries.
C12_MetaNeverFatal ==
  [][MetaCalled
       => /\ pc = "themes" /\ tree'.meta[Len(tree'.meta)].result \in MetaResults
          /\ err' = err /\ outcome' = outcome /\ exitCode' = exitCode
          /\ idx' = idx + 1
          /\ pc' = IF idx < Len(list) THEN "themes" ELSE AfterThemes]_vars

\* the rewrite fails for the first of two themes (one without style.css or
\* with an I/O error); the second theme and a plugin are cloned afterwards
\* and the run reports success
C12_Witness ==
  /\ Done /\ outcome = "success"
  /\ Len(themeSelections) = 2
  /\ MetaFailedFor(themeSelections[1].name)
  /\ \E i \in 1..Len(tree.meta) : tree.meta[i].result = "io error"
  /\ Has(Ev("theme", themeSelections[2].name, "done"))
  /\ Has(Ev("plugin", "oomi-sso", "done"))

(***************************************************************************)
(* applyThemeMeta called on its own                                        *)
(***************************************************************************)
\* the longest style.css, in lines, among the short files
MaxStyleLines == 3

StyleLines ==
  { "/*", " * Theme Name: Old", "theme name :x", " * Text Domain: old",
    " */", "body{}", "Theme Name: A\rB" }

RECURSIVE SeqsUpTo(_, _)
SeqsUpTo(S, n) ==
  IF n = 0 THEN { << >> }
  ELSE LET shorter == SeqsUpTo(S, n - 1)
       IN shorter \cup { Append(q, x) : q \in shorter, x \in S }

BlankLines(k) == [i \in 1..k |-> ""]

\* files whose header field sits right before and right after the end of
\* the scanned part
LongStyleFiles ==
  { Join(BlankLines(k) \o tail, "\n") :
      k \in { HeaderScanLimit - 1, HeaderScanLimit },
      tail \in { << " * Theme Name: Old" >>, << " * Text Domain: old" >>,
                 << " * Theme Name: Old", " */", "body{}" >> } }

StyleFiles ==
  { Join(ls, eol) : ls \in SeqsUpTo(StyleLines, MaxStyleLines), eol \in {"\n", "\r\n"} }
    \cup LongStyleFiles

\* the (displayName, slug) pairs the theme loop passes: an accepted answer,
\* trimmed, and its slug
MetaArgs ==
  { [fn |-> "applyThemeMeta", displayName |-> Trim(a), slug |-> slugify(Trim(a)),
     calls |-> 0] :
      a \in { v \in ThemeNameAnswers : ValidateThemeName(v, {}) = "ok" } }

MetaInit ==
  /\ CommandIdle
  /\ DownloadIdle
  /\ args \in MetaArgs
  /\ ret = NoReturn
  /\ styleCss \in { NoStyleCss } \cup { [exists |-> TRUE, text |-> f] : f \in StyleFiles }

Return(v) == [returned |-> TRUE, value |-> v]

\* one call of applyThemeMeta(themeDir, displayName, slug), the first or a
\* repeated one with the same arguments; whatever is thrown inside is
\* caught and logged
ApplyThemeMeta ==
  /\ args.fn = "applyThemeMeta"
  /\ args.calls < 2
  /\ \/ /\ ~styleCss.exists
        /\ ret' = Return("no style.css")
        /\ styleCss' = styleCss
     \/ /\ styleCss.exists
        /\ styleCss' = [styleCss EXCEPT
                          !.text = RewriteStyleCss(@, args.displayName, args.slug)]
        /\ ret' = Return("written")
     \/ /\ styleCss.exists
        /\ ret' = Return("io error")
        /\ styleCss' = styleCss
  /\ args' = [args EXCEPT !.calls = @ + 1]
  /\ UNCHANGED << cmdVars, dlVars >>

MetaNext == ApplyThemeMeta

MetaSpec == MetaInit /\ [][MetaNext]_vars

\* the header of a style.css: the lines before the first comment-close
\* line, within the first 200 lines
HeaderLength(lines) ==
  LET scanned == 1..Min(Len(lines), HeaderScanLimit)
      closes == { i \in scanned : IsHeaderClose(lines[i]) }
  IN IF closes = {} THEN Min(Len(lines), HeaderScanLimit) ELSE Least(closes) - 1
ThemeNameLines(lines) ==
  { i \in 1..HeaderLength(lines) : MatchesField(lines[i], "theme", "name") }
TextDomainLines(lines) ==
  { i \in 1..HeaderLength(lines) : MatchesField(lines[i], "text", "domain") }
\* the call of applyThemeMeta that this step makes rewrites style.css
Rewrites ==
  /\ args.fn = "applyThemeMeta" /\ ~ret.returned
  /\ ret'.returned /\ ret'.value = "written"
Before == SplitLines(styleCss.text)
After == SplitLines(styleCss'.text)

\* C13: For a style.css whose header (the lines before the first
\* comment-close line, within the first 200 lines) contains a 'Theme Name:'
\* line and no 'Text Domain:' line, after applyThemeMeta(themeDir,
\* displayName, slug) that line reads 'Theme Name: <displayName>' with its
\* original prefix, the line immediately after it reads 'Text Domain:
\* <slug>', and every other line is unchanged and in its original order.
C13_NameSetDomainInserted ==
  [][(Rewrites /\ ThemeNameLines(Before) # {} /\ TextDomainLines(Before) = {})
       => LET n == Least(ThemeNameLines(Before))
              prefix == LinePrefix(Before[n])
          IN /\ Len(After) = Len(Before) + 1
             /\ After[n] = prefix \o "Theme Name: " \o args.displayName
             /\ After[n + 1] = prefix \o "Text Domain: " \o args.slug
             /\ \A i \in 1..(n - 1) : After[i] = Before[i]
             /\ \A i \in (n + 1)..Len(Before) : After[i + 1] = Before[i]]_vars

\* C14: For a style.css in which neither a 'Theme Name:' line nor a 'Text
\* Domain:' line is found in the header scan, applyThemeMeta prepends a
\* synthetic comment block containing 'Theme Name: <displayName>' and 'Text
\* Domain: <slug>' and leaves the original file content unchanged after
\* that block.
C14_SyntheticHeaderPrepended ==
  [][(Rewrites /\ ThemeNameLines(Before) = {} /\ TextDomainLines(Before) = {})
       => styleCss'.text =
            "/*\nTheme Name: " \o args.displayName
              \o "\nText Domain: " \o args.slug \o "\n*/\n" \o styleCss.text]_vars

\* a file without header fields, after the call: the block, then the file
C14_Witness ==
  /\ ret = Return("written")
  /\ styleCss.text = "/*\nTheme Name: My Th^me!! 2\nText Domain: my-theme-2\n*/\n"
                       \o "body{}\r\n */\r\nTheme Name: A\rB"

(***************************************************************************)
(* The string helpers called on their own                                  *)
(***************************************************************************)
\* the longest list of theme names and of plugin names
MaxNames == 2
\* the most pieces a repository URL is put together from
MaxUrlTokens == 4
\* the longest text given to slugify, in characters
MaxTextLen == 4

FolderNames == { "", " ", "twentytwenty", " my-theme " }
UrlTokens == { "a", "/", ":", ".git", " " }
TextChars == { "a", "B", EAcute, "2", "-", " ", "!" }

RECURSIVE Concat(_)
Concat(seq) == IF Len(seq) = 0 THEN "" ELSE Head(seq) \o Concat(Tail(seq))

RepoUrls ==
  { Concat(q) : q \in SeqsUpTo(UrlTokens, MaxUrlTokens) }
    \cup { "git@host:org/repo.git", "https://host/org/repo",
           "https://host/org/repo/", "https://host/org/repo.git//",
           "https://github.com/shehrozasmat-star/oomi-sso" }
Texts ==
  { Concat(q) : q \in SeqsUpTo(TextChars, MaxTextLen) } \cup { "My Th^me!! 2" }

GitignoreCalls ==
  { [fn |-> "generateWordPressGitignore", themeNames |-> t, pluginNames |-> p] :
      t \in SeqsUpTo(FolderNames, MaxNames), p \in SeqsUpTo(FolderNames, MaxNames) }
RepoNameCalls == { [fn |-> "deriveRepoName", repoUrl |-> u] : u \in RepoUrls }
SlugifyCalls == { [fn |-> "slugify", str |-> x, calls |-> 0] : x \in Texts }

HelperInit ==
  /\ CommandIdle
  /\ DownloadIdle
  /\ styleCss = NoStyleCss
  /\ ret = NoReturn
  /\ args \in GitignoreCalls \cup RepoNameCalls \cup SlugifyCalls

CallGitignore ==
  /\ args.fn = "generateWordPressGitignore"
  /\ ~ret.returned
  /\ ret' = Return(generateWordPressGitignore(args.themeNames, args.pluginNames))
  /\ UNCHANGED << cmdVars, dlVars, args, styleCss >>

CallDeriveRepoName ==
  /\ args.fn = "deriveRepoName"
  /\ ~ret.returned
  /\ ret' = Return(deriveRepoName(args.repoUrl))
  /\ UNCHANGED << cmdVars, dlVars, args, styleCss >>

\* slugify(str), then slugify of what that call returned
CallSlugify ==
  /\ args.fn = "slugify"
  /\ args.calls < 2
  /\ ret' = Return(slugify(IF args.calls = 0 THEN args.str ELSE ret.value))
  /\ args' = [args EXCEPT !.calls = @ + 1]
  /\ UNCHANGED << cmdVars, dlVars, styleCss >>

HelperNext ==
  \/ CallGitignore
  \/ CallDeriveRepoName
  \/ CallSlugify

HelperSpec == HelperInit /\ [][HelperNext]_vars

Returned(fn) == args.fn = fn /\ ret.returned
NonBlank(n) == n # ""
\* the names that are not blank, trimmed, in the order given
Kept(names) == SelectSeq([i \in 1..Len(names) |-> Trim(names[i])], NonBlank)
FixedTop ==
  << "# WordPress project: ignore everything except selected themes/plugins",
     "/*", "!.gitignore", "!wp-content/", "",
     "# In wp-content, ignore all except themes and plugins",
     "wp-content/*", "!wp-content/themes/", "!wp-content/plugins/", "",
     "# Ignore all themes except the selected ones", "wp-content/themes/*" >>
FixedMiddle ==
  << "", "# Ignore all plugins except the selected ones", "wp-content/plugins/*" >>

\* C15: generateWordPressGitignore(themeNames, pluginNames) returns the
\* fixed structure lines in the fixed order, with exactly one
\* '!wp-content/themes/<name>/**' line per theme name whose trimmed value is
\* non-empty, in input order, placed directly after 'wp-content/themes/*',
\* and likewise one '!wp-content/plugins/<name>/**' line per non-blank
\* plugin name, in input order, directly after 'wp-content/plugins/*';
\* blank or whitespace-only names produce no line.
C15_GitignoreStructure ==
  Returned("generateWordPressGitignore")
    => LET L == SplitAtFeeds(ret.value)
           T == Kept(args.themeNames)
           P == Kept(args.pluginNames)
           t == Len(FixedTop)
           m == t + Len(T) + Len(FixedMiddle)
       IN /\ Len(L) >= m + Len(P)
          /\ SubSeq(L, 1, t) = FixedTop
          /\ \A k \in 1..Len(T) : L[t + k] = "!wp-content/themes/" \o T[k] \o "/**"
          /\ SubSeq(L, t + Len(T) + 1, m) = FixedMiddle
          /\ \A k \in 1..Len(P) : L[m + k] = "!wp-content/plugins/" \o P[k] \o "/**"
          /\ \A k \in (m + Len(P) + 1)..Len(L) : L[k] = ""

\* a blank and a padded theme name, a plugin name and an empty one, after
\* the call: one line for the padded name, trimmed
C15_Witness ==
  /\ Returned("generateWordPressGitignore")
  /\ args.themeNames = << " ", " my-theme " >>
  /\ args.pluginNames = << "twentytwenty", "" >>
  /\ \E i \in 1..Len(SplitAtFeeds(ret.value)) :
       SplitAtFeeds(ret.value)[i] = "!wp-content/themes/my-theme/**"

\* C16: For all input name lists, the text returned by
\* generateWordPressGitignore is the same for the same ordered inputs and
\* always ends with a single trailing newline (the last character is a
\* newline and the character before it is not).
C16_SingleTrailingNewline ==
  Returned("generateWordPressGitignore")
    => /\ Len(ret.value) >= 2
       /\ CharAt(ret.value, Len(ret.value)) = "\n"
       /\ CharAt(ret.value, Len(ret.value) - 1) # "\n"

Greatest(S) == CHOOSE x \in S : \A y \in S : y <= x
\* the part of s after the last occurrence of the character c
AfterLast(s, c) ==
  LET at == { i \in 1..Len(s) : CharAt(s, i) = c }
  IN IF at = {} THEN s ELSE SubSeq(s, Greatest(at) + 1, Len(s))
\* the last '/'-delimited segment of s that is not empty, trailing slashes
\* being ignored ("" if s has no other character)
LastSegment(s) ==
  LET others == { i \in 1..Len(s) : CharAt(s, i) # "/" }
  IN IF others = {} THEN ""
     ELSE AfterLast(SubSeq(s, 1, Greatest(others)), "/")
WithoutGit(s) ==
  IF Len(s) >= 4 /\ SubSeq(s, Len(s) - 3, Len(s)) = ".git"
    THEN SubSeq(s, 1, Len(s) - 4) ELSE s

\* C17: deriveRepoName is total and deterministic on strings: it returns
\* 'repo' for an SSH-style URL ending in '<segment>.git' such as
\* 'git@host:org/repo.git', returns the last '/'-delimited segment with a
\* trailing '.git' removed for other URLs, ignores any number of trailing
\* slashes, and returns the literal 'theme' when the result would be empty
\* (including for the empty string).
C17_DeriveRepoName ==
  Returned("deriveRepoName")
    => LET segment == LastSegment(Trim(args.repoUrl))
           \* the segment named before '.git', after the ':' of an SSH URL
           named == IF WithoutGit(segment) # segment
                      THEN AfterLast(WithoutGit(segment), ":") ELSE ""
       IN /\ ret.value # ""
          /\ named # "" => ret.value = named
          /\ (named = "" /\ WithoutGit(segment) # "") => ret.value = WithoutGit(segment)
          /\ (named = "" /\ WithoutGit(segment) = "") => ret.value = "theme"
          /\ args.repoUrl \in { "git@host:org/repo.git", "https://host/org/repo",
                                "https://host/org/repo/", "https://host/org/repo.git//" }
               => ret.value = "repo"
          /\ args.repoUrl \in { "", "/", " // ", ".git", "a/.git/" }
               => ret.value = "theme"

\* the SSH-style URL has been given to deriveRepoName
C17_Witness ==
  /\ Returned("deriveRepoName")
  /\ args.repoUrl = "git@host:org/repo.git"
  /\ ret.value = "repo"

\* C18: slugify is idempotent: for every input string x,
\* slugify(slugify(x)) equals slugify(x).
C18_SlugifyIdempotent ==
  [][(args.fn = "slugify" /\ args.calls = 1 /\ args'.calls = 2)
       => ret'.value = ret.value]_vars

\* slugify has been applied to "My Th^me!! 2" and then to its own result
C18_Witness ==
  /\ args.fn = "slugify" /\ args.calls = 2
  /\ args.str = "My Th^me!! 2"
  /\ ret.value = "my-theme-2"

FolderNamesTaken == { themeSelections[i].name : i \in 1..Len(themeSelections) }
\* what the themeName question would return for this input
AnswerFor(input) == ThemeNameValue(input, selectedThemeUrls[idx], usedSlugs)

\* C19: For any sequence of theme-name answers accepted by the prompt
\* validator, after the collection loop every entry of themeSelections has
\* a non-empty folder name and the folder names are pairwise distinct; an
\* answer whose slug is empty or equals the slug of an earlier entry is
\* rejected (the validator returns a message and no entry is added for it).
C19_DistinctFolderNames ==
  /\ [](/\ \A i \in 1..Len(themeSelections) :
             /\ themeSelections[i].name # ""
             /\ themeSelections[i].name = slugify(themeSelections[i].displayName)
             /\ \A j \in 1..Len(themeSelections) :
                  themeSelections[i].name = themeSelections[j].name => i = j
        /\ pc = "themeNames"
             => \A input \in ThemeNameAnswers :
                  (\/ slugify(Trim(AnswerFor(input))) = ""
                   \/ slugify(Trim(AnswerFor(input))) \in FolderNamesTaken)
                    => ValidateThemeName(AnswerFor(input), usedSlugs) # "ok")
  /\ [][themeSelections' # themeSelections
          => /\ pc = "themeNames"
             /\ Len(themeSelections') = Len(themeSelections) + 1
             /\ SubSeq(themeSelections', 1, Len(themeSelections)) = themeSelections
             /\ LET e == themeSelections'[Len(themeSelections')]
                IN /\ e.url = selectedThemeUrls[idx]
                   /\ e.name # "" /\ e.name \notin FolderNamesTaken]_vars

\* two themes: the first answered with the name the second one has by
\* default, so the default offered for the second one gets a suffix
C19_Witness ==
  /\ pc = "check"
  /\ Len(themeSelections) = 2
  /\ themeSelections[1].name = "twentytwenty"
  /\ themeSelections[2].name = "twentytwenty-1"

(***************************************************************************)
(* downloadToFile called on its own                                        *)
(***************************************************************************)
\* how many stream events are delivered during one call
MaxEvents == 4

WriterErrors == { "ENOSPC: write" }
ResponseErrors == { "ECONNRESET: aborted" }
RequestErrors == { "Request failed" }

DownloadInit ==
  /\ CommandIdle
  /\ args = [fn |-> "downloadToFile"]
  /\ ret = NoReturn
  /\ styleCss = NoStyleCss
  /\ DownloadIdle

\* resolve() or reject(err): only the first call changes the promise
Settle(p, e) ==
  IF p.state # "pending" THEN p
  ELSE IF e = Null THEN [state |-> "resolved", reason |-> Null]
  ELSE [state |-> "rejected", reason |-> e]

RECURSIVE SettleAll(_, _)
SettleAll(p, errs) ==
  IF Len(errs) = 0 THEN p ELSE SettleAll(Settle(p, Head(errs)), Tail(errs))

\* const response = await axios.get(url, ...); then the executor of the
\* promise creates the write stream and registers the three handlers
StartDownload ==
  /\ args.fn = "downloadToFile"
  /\ ~writer.created /\ promise.state = "pending"
  /\ \/ /\ writer' = [writer EXCEPT !.created = TRUE]
        /\ UNCHANGED << promise, settled >>
     \/ \E e \in RequestErrors :
          /\ promise' = Settle(promise, e)
          /\ settled' = settled + 1
          /\ writer' = writer
  /\ UNCHANGED << cmdVars, args, ret, styleCss, finished, closeListeners,
                  nextTicks, events >>

\* mutant: cleanup without the finished flag
CleanupUnguarded(w, e) ==
  /\ finished' = TRUE
  /\ IF w.closed
       THEN /\ nextTicks' = Append(nextTicks, e)
            /\ closeListeners' = closeListeners
            /\ writer' = w
       ELSE /\ closeListeners' = Append(closeListeners, e)
            /\ nextTicks' = nextTicks
            /\ writer' = [w EXCEPT !.ended = TRUE]

\* cleanup(err), the handler of all three events, run when the write
\* stream is in state w; e is Null for 'finish'.  writer.close(cb) queues
\* cb by nextTick when the stream is closed already, and otherwise
\* registers cb for 'close' and ends the stream
Cleanup(w, e) ==
  IF ~finished
    THEN /\ finished' = TRUE
         /\ IF w.closed
              THEN /\ nextTicks' = Append(nextTicks, e)
                   /\ closeListeners' = closeListeners
                   /\ writer' = w
              ELSE /\ closeListeners' = Append(closeListeners, e)
                   /\ nextTicks' = nextTicks
                   /\ writer' = [w EXCEPT !.ended = TRUE]
    ELSE /\ writer' = w
         /\ UNCHANGED << finished, closeListeners, nextTicks >>

\* the write stream emits 'finish'
WriterFinish ==
  /\ writer.created /\ ~writer.closeEmitted
  /\ Len(events) < MaxEvents
  /\ events' = Append(events, [on |-> "writer", event |-> "finish", error |-> Null])
  /\ Cleanup([writer EXCEPT !.emitted = TRUE], Null)
  /\ UNCHANGED << cmdVars, args, ret, styleCss, promise, settled >>

\* the write stream emits 'error'; a stream that destroys itself on the
\* error has released its file descriptor before the event is emitted,
\* and whether it has depends on the runtime
WriterError ==
  /\ writer.created /\ ~writer.closeEmitted
  /\ Len(events) < MaxEvents
  /\ \E e \in WriterErrors, destroyed \in BOOLEAN :
       /\ events' = Append(events, [on |-> "writer", event |-> "error", error |-> e])
       /\ Cleanup([writer EXCEPT !.emitted = TRUE, !.closed = @ \/ destroyed], e)
  /\ UNCHANGED << cmdVars, args, ret, styleCss, promise, settled >>

\* the response stream emits 'error'
ResponseError ==
  /\ writer.created
  /\ Len(events) < MaxEvents
  /\ \E e \in ResponseErrors :
       /\ events' = Append(events, [on |-> "response", event |-> "error", error |-> e])
       /\ Cleanup(writer, e)
  /\ UNCHANGED << cmdVars, args, ret, styleCss, promise, settled >>

\* the write stream, its file descriptor released, emits 'close', after
\* it was ended or after its own 'finish' or 'error'; the callbacks
\* registered by writer.close run
WriterClose ==
  /\ writer.created /\ ~writer.closeEmitted
  /\ writer.ended \/ writer.emitted
  /\ writer' = [writer EXCEPT !.closed = TRUE, !.closeEmitted = TRUE]
  /\ promise' = SettleAll(promise, closeListeners)
  /\ settled' = settled + Len(closeListeners)
  /\ closeListeners' = <<>>
  /\ UNCHANGED << cmdVars, args, ret, styleCss, finished, nextTicks, events >>

\* a callback queued by process.nextTick runs
NextTick ==
  /\ nextTicks # <<>>
  /\ promise' = Settle(promise, Head(nextTicks))
  /\ settled' = settled + 1
  /\ nextTicks' = Tail(nextTicks)
  /\ UNCHANGED << cmdVars, args, ret, styleCss, finished, writer,
                  closeListeners, events >>

DownloadNext ==
  \/ StartDownload
  \/ WriterFinish
  \/ WriterError
  \/ ResponseError
  \/ WriterClose
  \/ NextTick

DownloadSpec == DownloadInit /\ [][DownloadNext]_vars

\* the event loop runs the pending close of an ended stream and the
\* callbacks queued by nextTick
DownloadFairSpec ==
  DownloadSpec /\ WF_vars(WriterClose) /\ WF_vars(NextTick)

\* C20: whatever stream events arrive, in whatever order and number,
\* resolve or reject is called at most once and, once an event has been
\* delivered, eventually once; the promise is resolved when the first event
\* is 'finish' and rejected with the error of the first event when that is
\* a writer error or a response error; and the write stream is closed at
\* the moment the promise settles.
C20_SettlesOnceAfterClose ==
  /\ [](/\ settled <= 1
        /\ (promise.state # "pending") = (settled = 1)
        /\ (events # <<>> /\ promise.state # "pending")
             => /\ writer.closed
                /\ IF events[1].event = "finish"
                     THEN promise = [state |-> "resolved", reason |-> Null]
                     ELSE promise = [state |-> "rejected", reason |-> events[1].error])
  /\ [][(promise' # promise /\ writer.created) => writer'.closed]_vars
  /\ ((events # <<>>) ~> (promise.state # "pending"))

C20_Witness ==
  /\ Len(events) >= 3
  /\ events[1].on = "response"
  /\ events[2].event = "finish"
  /\ events[3].on = "writer" /\ events[3].event = "error"
  /\ writer.closed
  /\ settled = 1
  /\ promise = [state |-> "rejected", reason |-> "ECONNRESET: aborted"]

(***************************************************************************)
(* Cleanup in catch and finally                                            *)
(***************************************************************************)
SuccessLine == [stream |-> "stdout", msg |-> "Success: WordPress project created."]

\* C21: Every run that created a temporary workspace has run the removal of
\* that workspace when it ends, after a success, after a failure, and after
\* a failure whose rollback removal of the project directory failed too;
\* neither removal changes what the run reports: the finally block leaves
\* the outcome and the printed lines alone, the catch block reports the
\* error that reached it whether or not its removal works, and at the end a
\* run without error has reported success and a run with an error has that
\* error as its last line and no success line.
C21_TempRemovalAlwaysRun ==
  /\ [](Done =>
          /\ tmpBase # Null => Has(Ev("rmTemp", "", "start"))
          /\ (tmpBase # Null /\ err = Null)
               => (outcome = "success" /\ Printed("stdout", SuccessLine.msg)
                     /\ ~ErrorLinePrinted)
          /\ err # Null
               => /\ outcome = "failed"
                  /\ out[Len(out)] = [stream |-> "stderr", msg |-> "Error: " \o err]
                  /\ ~Printed("stdout", SuccessLine.msg))
  /\ [][pc = "finally" => UNCHANGED << outcome, out, err >>]_vars
  /\ [][pc = "catch" => /\ outcome' = "failed"
                        /\ out' = Log("stderr", "Error: " \o err)
                        /\ err' = err
                        /\ pc' = "finally"]_vars

C21_Witness ==
  /\ Done /\ outcome = "failed"
  /\ err = "Command failed: git clone"
  /\ RemovalFailed("rmProject")
  /\ RemovalFailed("rmTemp")
  /\ projectDir = "own" /\ workspace.exists

(***************************************************************************)
(* The network calls of one run, and whether each of them ends             *)
(***************************************************************************)
\* the most clones of each kind in one run
MaxClones == 2

\* timeout: 30000 of the release request, timeout: 120000 of the download
ReleaseTimeout == 30000
DownloadTimeout == 120000

\* a call the run waits for, with the time limit its options give it;
\* execSync is called with { stdio: 'inherit' } only, so it has none
ReleaseCall == [kind |-> "release", bounded |-> TRUE, ms |-> ReleaseTimeout]
DownloadCall == [kind |-> "download", bounded |-> TRUE, ms |-> DownloadTimeout]
CloneCall(kind) == [kind |-> kind, bounded |-> FALSE, ms |-> 0]

\* the calls of a run that clones t themes and p plugins, in program order
NetworkCalls(t, p) ==
  << ReleaseCall, DownloadCall >>
    \o [i \in 1..t |-> CloneCall("theme")]
    \o [i \in 1..p |-> CloneCall("plugin")]

NetInit ==
  /\ CommandIdle
  /\ DownloadIdle
  /\ styleCss = NoStyleCss
  /\ ret = NoReturn
  /\ \E t \in 0..MaxClones, p \in 0..MaxClones :
       args = [fn |-> "run", queue |-> NetworkCalls(t, p), inflight |-> FALSE,
               stalled |-> FALSE, warned |-> FALSE, last |-> ""]

\* the run reaches the next call; whether the other side will ever answer
\* is not up to the run
StartCall ==
  /\ args.fn = "run" /\ ~ret.returned
  /\ ~args.inflight /\ args.queue # << >>
  /\ \E s \in BOOLEAN : args' = [args EXCEPT !.inflight = TRUE, !.stalled = s]
  /\ UNCHANGED << cmdVars, dlVars, ret, styleCss >>

\* what the run does when the call in flight has failed, why being the
\* error: a failed release
\* request is warned about and the run goes on, any other failure goes to
\* the catch and finally blocks and the run ends
CallFailed(why) ==
  IF Head(args.queue).kind = "release"
    THEN /\ args' = [args EXCEPT !.queue = Tail(@), !.inflight = FALSE,
                                 !.stalled = FALSE, !.warned = TRUE,
                                 !.last = why]
         /\ ret' = ret
    ELSE /\ args' = [args EXCEPT !.inflight = FALSE, !.stalled = FALSE,
                                 !.last = why]
         /\ ret' = Return("failed")

\* the call in flight ends by itself, with a result or with an error
CallReturns ==
  /\ args.fn = "run" /\ args.inflight /\ ~args.stalled
  /\ \/ /\ args' = [args EXCEPT !.queue = Tail(@), !.inflight = FALSE,
                                !.last = "result"]
        /\ ret' = ret
     \/ CallFailed("error")
  /\ UNCHANGED << cmdVars, dlVars, styleCss >>

\* the time limit of a stalled call runs out: the call fails
TimeoutFires ==
  /\ args.fn = "run" /\ args.inflight /\ args.stalled
  /\ Head(args.queue).bounded
  /\ CallFailed("timeout of " \o Head(args.queue).kind)
  /\ UNCHANGED << cmdVars, dlVars, styleCss >>

\* no call is left: the run reports success and ends
RunSucceeds ==
  /\ args.fn = "run" /\ ~ret.returned
  /\ ~args.inflight /\ args.queue = << >>
  /\ ret' = Return("success")
  /\ UNCHANGED << cmdVars, dlVars, args, styleCss >>

NetNext ==
  \/ StartCall
  \/ CallReturns
  \/ TimeoutFires
  \/ RunSucceeds

\* the run takes its next step, a call that is answered returns, and a
\* time limit that was set runs out
StallSpec ==
  /\ NetInit /\ [][NetNext]_vars
  /\ WF_vars(StartCall) /\ WF_vars(CallReturns)
  /\ WF_vars(TimeoutFires) /\ WF_vars(RunSucceeds)

\* C22: Every run eventually reaches a terminal state, even when a network
\* call stalls forever: the release request, the archive download and each
\* repository clone end after a bounded time.
C22_EveryRunTerminates == <>(args.fn = "run" /\ ret.returned)

\* C23: Whatever the input, the result of slugify consists of the
\* characters a-z, 0-9 and '-' only, neither starts nor ends with a hyphen
\* and has no two hyphens in a row; it may be empty.
C23_SlugShape ==
  Returned("slugify") =>
    LET r == ret.value
    IN /\ \A i \in 1..Len(r) : IsSlugChar(CharAt(r, i)) \/ CharAt(r, i) = "-"
       /\ Len(r) > 0 => (CharAt(r, 1) # "-" /\ CharAt(r, Len(r)) # "-")
       /\ \A i \in 1..(Len(r) - 1) : ~(CharAt(r, i) = "-" /\ CharAt(r, i + 1) = "-")

\* slugify has been applied to a text with a hyphen in front and a run of
\* other characters inside
C23_Witness ==
  /\ Returned("slugify") /\ args.calls = 1
  /\ args.str = "-a!2"
  /\ ret.value = "a-2"

(***************************************************************************)
(* The metadata rewrite in the clone loops                                 *)
(***************************************************************************)
\* the record of one call applyThemeMeta(dir, displayName, slug)
MetaCallFor(entry, result) ==
  [dir |-> entry.name, displayName |-> entry.displayName, slug |-> entry.name,
   result |-> result]

\* C24: The iteration of the theme loop that finds its destination in
\* place clones nothing, calls the metadata rewrite once on that directory
\* with the display name and the folder name of its entry, and only then
\* goes on to the next entry; the plugin loop never calls the rewrite,
\* neither when it clones nor when it skips.
C24_RewriteOnExistingTheme ==
  /\ [][(pc = "themes" /\ list[idx].name \in tree.themes)
          => /\ list[idx].displayName # ""
             /\ \E res \in MetaResults :
                  tree'.meta = Append(tree.meta, MetaCallFor(list[idx], res))
             /\ tree'.themes = tree.themes
             /\ trace' = trace
             /\ idx' = idx + 1]_vars
  /\ [][(pc = "pluginsDir" \/ pc = "plugins") => tree'.meta = tree.meta]_vars

C24_Witness ==
  /\ Done /\ outcome = "success"
  /\ Printed("stderr", "Skipping theme (already exists): twentytwenty")
  /\ Printed("stderr", "Skipping plugin (already exists): oomi-sso")
  /\ \E i \in 1..Len(tree.meta) :
       /\ tree.meta[i].dir = "twentytwenty"
       /\ tree.meta[i].slug = "twentytwenty"
       /\ tree.meta[i].displayName = "twentytwenty"
  /\ ~Has(Ev("theme", "twentytwenty", "start"))

(***************************************************************************)
(* What the .gitignore lists                                               *)
(***************************************************************************)
\* the folder names on the '!wp-content/<kind>/<name>/**' lines of the
\* .gitignore in the project directory, in the order of the lines
ListedNames(kind) ==
  LET pre == "!wp-content/" \o kind \o "/"
      IsEntry(l) == /\ Len(l) > Len(pre) + 3
                    /\ SubSeq(l, 1, Len(pre)) = pre
                    /\ EndsWith(l, "/**")
      entries == SelectSeq(SplitAtFeeds(tree.gitignore), IsEntry)
  IN [i \in 1..Len(entries) |->
        SubSeq(entries[i], Len(pre) + 1, Len(entries[i]) - 3)]

\* C25: Whenever the project directory holds the .gitignore the run wrote,
\* every theme name and every plugin name listed in it is the name of a
\* directory under wp-content/themes or wp-content/plugins of the project
\* directory, and the theme names listed are the folder names of
\* themeSelections, in selection order.
C25_GitignoreListsInstalled ==
  tree.gitignore # Null =>
    LET themeNames == ListedNames("themes")
        pluginNames == ListedNames("plugins")
    IN /\ projectDir = "own"
       /\ themeNames = Names(themeSelections)
       /\ \A i \in 1..Len(themeNames) :
            tree.themesDir /\ themeNames[i] \in tree.themes
       /\ \A i \in 1..Len(pluginNames) :
            tree.pluginsDir /\ pluginNames[i] \in tree.plugins
       /\ Len(pluginNames) = Len(selectedPluginUrls)

C25_Witness ==
  /\ Done /\ outcome = "success"
  /\ tree.gitignore # Null
  /\ Len(themeSelections) = 2
  /\ themeSelections[1].name = "my-theme-2"
  /\ ListedNames("themes") = << "my-theme-2", themeSelections[2].name >>
  /\ Len(ListedNames("plugins")) > 0

(***************************************************************************)
(* Whose project directory the rollback removes                            *)
(***************************************************************************)
\* C26: A run removes the project directory only if that run created it:
\* the rollback removal is run only after this run's mkdir succeeded, and a
\* directory that another invocation created at the path, also between
\* this run's existence check and its mkdir, is neither removed nor
\* modified by any step of this run.
C26_RemovesOnlyOwnDir ==
  /\ [](Has(Ev("rmProject", "", "start")) => DirCreated)
  /\ [][projectDir = "foreign" => (projectDir' = "foreign" /\ tree' = tree)]_vars

(***************************************************************************)
(* applyThemeMeta: what every rewrite leaves behind                        *)
(***************************************************************************)
\* the lines of style.css as it is now
Lines == SplitLines(styleCss.text)

\* C27: For every existing style.css and every non-empty displayName and
\* slug, after applyThemeMeta has written the file its header holds a line
\* that reads 'Theme Name: <displayName>' after the optional comment
\* marker, whichever of the two fields the header held before the call.
C27_ThemeNameAlwaysSet ==
  (Returned("applyThemeMeta") /\ ret.value = "written"
     /\ args.displayName # "" /\ args.slug # "")
    => \E i \in 1..HeaderLength(Lines) :
         AfterPrefix(Lines[i]) = "Theme Name: " \o args.displayName

\* C28: For every initial style.css, a second call of applyThemeMeta with
\* the same displayName and slug leaves the lines of the file as the first
\* call left them: no second Theme Name or Text Domain line is added and no
\* second synthetic header is prepended.
C28_RewriteIdempotent ==
  [][(/\ args.fn = "applyThemeMeta" /\ args.calls = 1 /\ args'.calls = 2
      /\ ret.value = "written" /\ ret'.value = "written")
       => SplitLines(styleCss'.text) = SplitLines(styleCss.text)]_vars

====
